---- MODULE Spec2Model ----
(***************************************************************************)
(* Scan-history record store (ScanHistoryManager over localStorage).      *)
(*                                                                         *)
(* The storage medium holds one string under STORAGE_KEY (variable         *)
(* `stored`).  Every public operation of the store is one action: it runs  *)
(* its whole load-mutate-persist cycle and leaves its return value in      *)
(* `lastCall`.  The behaviour of the medium during a call (the             *)
(* availability probe, getItem, the first and the second setItem) is       *)
(* chosen by the environment with \E.  The probe writes and removes its    *)
(* own key, "__storage_test__"; that key is not part of the history and    *)
(* is not modelled.                                                        *)
(*                                                                         *)
(* Strings that the store only copies are kept abstract: a report is a     *)
(* name with its length in characters; a label is a sequence of            *)
(* one-character strings, so that trim and slice are computed.             *)
(***************************************************************************)
EXTENDS Integers, Sequences, FiniteSets, TLC

VARIABLES stored, clock, nextId, opCount, lastCall, engine, parser, multiScan, callers,
          home

vars == <<stored, clock, nextId, opCount, lastCall, engine, parser, multiScan, callers,
          home>>

---------------------------------------------------------------------------
(* Program constants (scan-history-manager.ts:20-36) *)

SCHEMA_VERSION == 1
MAX_SCANS == 50
STORAGE_LIMIT_BYTES == 5242880
WARNING_THRESHOLD == (STORAGE_LIMIT_BYTES * 8) \div 10

(* Bounds of the model *)
MaxOps == 1

---------------------------------------------------------------------------
(* Values *)

\* JavaScript's undefined, as the value of an optional label.
Undefined == <<"undefined">>
\* undefined as the value of an optional list of strings.
UndefinedList == <<Undefined>>

\* The element of a one-element set: The({e(v) : v \in {x}}) computes x once.
The(S) == CHOOSE x \in S : TRUE

Max(a, b) == IF a >= b THEN a ELSE b
Min(a, b) == IF a <= b THEN a ELSE b

\* A run of n copies of the character c.
Repeat(c, n) == [i \in 1..n |-> c]

---------------------------------------------------------------------------
(* Report texts and parseReportMetadata (history-utils).                   *)
(*                                                                         *)
(* A report has a name, a length in characters, and a text: the sequence   *)
(* of the pieces the extractor's regular expressions can match:            *)
(*   total   "Total Violations[ Found]: n", by the total pattern it fits   *)
(*   sev     a severity count, by the severity pattern it fits (pattern 4  *)
(*           is the heading "## <emoji> <Severity> Issues (n)")            *)
(*   heading "## <emoji> <Severity> Issues" without a count                *)
(*   entry   "### n. title"                                                *)
(*   h2      any other "## " heading                                       *)
(*   pages   a page-count phrase, by the page pattern it fits              *)
(*   wcag    a WCAG-level phrase, by the WCAG pattern it fits              *)
(*   text    anything else                                                 *)

Severities == <<"critical", "serious", "moderate", "minor">>

Token(kind, sev, pattern, n, level) ==
    [kind |-> kind, sev |-> sev, pattern |-> pattern, n |-> n, level |-> level]

TotalLine(pattern, n)    == Token("total", "", pattern, n, "")
SevLine(sev, pattern, n) == Token("sev", sev, pattern, n, "")
SectionHeading(sev)      == Token("heading", sev, 0, 0, "")
IssueEntry               == Token("entry", "", 0, 0, "")
OtherHeading             == Token("h2", "", 0, 0, "")
PagesLine(pattern, n)    == Token("pages", "", pattern, n, "")
WcagLine(pattern, level) == Token("wcag", "", pattern, 0, level)
TextLine                 == Token("text", "", 0, 0, "")

\* Indices of the pieces of `lines` that a pattern of the kind matches, in
\* text order.
Matches(lines, kind, pattern) ==
    {i \in 1..Len(lines) : lines[i].kind = kind /\ lines[i].pattern = pattern}

SetMin(S) == CHOOSE x \in S : \A y \in S : x <= y
SetMax(S) == CHOOSE x \in S : \A y \in S : x >= y

\* report.match(pattern) over a list of patterns tried in order: the first
\* match of the first pattern that matches at all; 0 when none does.
FirstMatchInPatternOrder(lines, kind, patterns) ==
    LET hits(p) == Matches(lines, kind, p)
        matching == {p \in patterns : hits(p) # {}}
    IN  IF matching = {} THEN 0 ELSE SetMin(hits(SetMin(matching)))

\* The loop over totalPatterns: the first pattern that matches sets the total.
TotalFromReport(lines) ==
    LET i == FirstMatchInPatternOrder(lines, "total", 1..4)
    IN  IF i = 0 THEN 0 ELSE lines[i].n

\* The loops over severityPatterns: the largest positive count matched.
PatternCount(lines, sev) ==
    LET hits == {i \in UNION {Matches(lines, "sev", p) : p \in 1..4} :
                   lines[i].sev = sev /\ lines[i].n > 0}
    IN  IF hits = {} THEN 0 ELSE SetMax({lines[i].n : i \in hits})

\* The piece contains the characters "##".
HasHashes(t) == t.kind \in {"heading", "h2", "entry"} \/ (t.kind = "sev" /\ t.pattern = 4)

\* The piece is matched by the section pattern of the severity.
IsSectionStart(t, sev) ==
    t.sev = sev /\ (t.kind = "heading" \/ (t.kind = "sev" /\ t.pattern = 4))

\* The fallback: the section pattern captures the text from the severity's
\* heading up to the next "##" (or the end), and the "### n." entries in the
\* captured text are counted.
SectionCount(lines, sev) ==
    LET starts == {i \in 1..Len(lines) : IsSectionStart(lines[i], sev)}
    IN  IF starts = {} THEN 0
        ELSE LET start == SetMin(starts)
                 stops == {i \in (start + 1)..Len(lines) : HasHashes(lines[i])}
                 end == IF stops = {} THEN Len(lines) + 1 ELSE SetMin(stops)
             IN  Cardinality({i \in (start + 1)..(end - 1) : lines[i].kind = "entry"})

\* The loop over pagePatterns: the first pattern whose match is positive.
PageCount(lines, mode) ==
    IF mode = "single" THEN 1
    ELSE LET firstOf(p) ==
                 SetMin(Matches(lines, "pages", p))
             good == {p \in 1..3 :
                        /\ Matches(lines, "pages", p) # {}
                        /\ lines[firstOf(p)].n > 0}
         IN  IF good = {} THEN 0 ELSE lines[firstOf(SetMin(good))].n

\* The loop over wcagPatterns: "" stands for a wcagLevel that is not set.
WcagLevel(lines) ==
    LET i == FirstMatchInPatternOrder(lines, "wcag", 1..3)
    IN  IF i = 0 THEN "" ELSE lines[i].level

\* Reports the callers pass to add.  A record keeps its report by name.
SmallReport == "small"
BigReport == "big"
HugeReport == "huge"

\* report.length
ReportChars(report) ==
    CASE report = SmallReport -> 1000
      [] report = BigReport -> 1200000
      [] report = HugeReport -> 2700000

ReportLines(report) ==
    CASE report = SmallReport -> <<SevLine("critical", 1, 2), SevLine("minor", 1, 1)>>
      [] report = BigReport -> <<TotalLine(1, 15), TextLine>>
      [] report = HugeReport ->
           <<SectionHeading("serious"), IssueEntry, IssueEntry, PagesLine(1, 3)>>

\* The four severity counts: by the severity patterns, or, when these leave
\* all four at zero, by the entries counted under the severity's heading.
SeverityCounts(lines) ==
    LET byPattern == [k \in 1..4 |-> PatternCount(lines, Severities[k])]
    IN  IF \A k \in 1..4 : byPattern[k] = 0
        THEN [k \in 1..4 |->
                IF SectionCount(lines, Severities[k]) > 0
                THEN SectionCount(lines, Severities[k]) ELSE 0]
        ELSE byPattern

\* The extraction with the stated total ignored.
ParseReportTextUnstated(lines, mode) ==
    LET counts == SeverityCounts(lines)
    IN  [totalViolations |-> counts[1] + counts[2] + counts[3] + counts[4],
         critical |-> counts[1], serious |-> counts[2],
         moderate |-> counts[3], minor |-> counts[4],
         pageCount |-> PageCount(lines, mode),
         wcagLevel |-> WcagLevel(lines)]

\* parseReportMetadata on the text of a report.
ParseReportText(lines, mode) ==
    LET counts == SeverityCounts(lines)
        calculatedTotal == counts[1] + counts[2] + counts[3] + counts[4]
    IN  [totalViolations |-> Max(TotalFromReport(lines), calculatedTotal),
         critical |-> counts[1], serious |-> counts[2],
         moderate |-> counts[3], minor |-> counts[4],
         pageCount |-> PageCount(lines, mode),
         wcagLevel |-> WcagLevel(lines)]

ParseReportMetadata(report, mode) == ParseReportText(ReportLines(report), mode)

\* An in-memory ScanRecord (history-types.ts:35-52).
ScanRecord(id, url, mode, timestamp, report, metadata, label, discoveredUrls) ==
    [id |-> id, url |-> url, mode |-> mode, timestamp |-> timestamp,
     report |-> report, metadata |-> metadata, label |-> label,
     discoveredUrls |-> discoveredUrls]

\* An in-memory ScanHistory (history-types.ts:57-64).  `version` may be
\* missing on an object that came out of JSON.parse.
ScanHistory(hasVersion, version, scans, lastModified) ==
    [hasVersion |-> hasVersion, version |-> version, scans |-> scans,
     lastModified |-> lastModified]

---------------------------------------------------------------------------
(* JSON texts.  A text is what the medium stores and what import/export    *)
(* exchange.  kind: "absent" (no item under the key), "malformed" (not     *)
(* JSON), "null", "primitive" (a JSON number or string), "object".         *)

JsonText(kind, hasVersion, version, scansIsArray, scans, lastModified, indent) ==
    [kind |-> kind, hasVersion |-> hasVersion, version |-> version,
     scansIsArray |-> scansIsArray, scans |-> scans,
     lastModified |-> lastModified, indent |-> indent]

NonObjectText(kind) == JsonText(kind, FALSE, 0, FALSE, <<>>, 0, 0)

AbsentItem == NonObjectText("absent")

\* JSON.stringify of one record: a property whose value is undefined is left out.
StringifyRecord(r) ==
    [id |-> r.id, url |-> r.url, mode |-> r.mode, timestamp |-> r.timestamp,
     report |-> r.report, metadata |-> r.metadata,
     hasLabel |-> r.label # Undefined,
     label |-> IF r.label # Undefined THEN r.label ELSE <<>>,
     hasDiscoveredUrls |-> r.discoveredUrls # UndefinedList,
     discoveredUrls |-> IF r.discoveredUrls # UndefinedList
                        THEN r.discoveredUrls ELSE <<>>]

\* JSON.parse of one record: a property that is left out reads as undefined.
ParseRecord(j) ==
    ScanRecord(j.id, j.url, j.mode, j.timestamp, j.report, j.metadata,
               IF j.hasLabel THEN j.label ELSE Undefined,
               IF j.hasDiscoveredUrls THEN j.discoveredUrls ELSE UndefinedList)

\* JSON.stringify(history, null, indent)
JsonStringify(history, indent) ==
    JsonText("object", history.hasVersion, history.version, TRUE,
             [i \in 1..Len(history.scans) |-> StringifyRecord(history.scans[i])],
             history.lastModified, indent)

\* JSON.parse(text): throws on malformed text, else the value.
JsonParse(text) ==
    IF text.kind = "malformed"
    THEN [threw |-> TRUE, error |-> "SyntaxError", kind |-> "none",
          isArray |-> FALSE, value |-> ScanHistory(FALSE, 0, <<>>, 0)]
    ELSE [threw |-> FALSE, error |-> "", kind |-> text.kind,
          isArray |-> text.scansIsArray,
          value |-> ScanHistory(text.hasVersion, text.version,
                      [i \in 1..Len(text.scans) |-> ParseRecord(text.scans[i])],
                      text.lastModified)]

(* Length in characters of JSON.stringify(history): the fixed text of the  *)
(* container and of each record, the report, and the label when present.  *)
HistoryOverhead == 66
RecordOverhead == 280
LabelOverhead == 11

RecordChars(j) ==
    RecordOverhead + ReportChars(j.report)
      + (IF j.hasLabel THEN LabelOverhead + Len(j.label) ELSE 0)

RECURSIVE SumChars(_, _, _)
SumChars(js, lo, hi) ==
    IF lo > hi THEN 0
    ELSE IF lo = hi THEN RecordChars(js[lo])
    ELSE SumChars(js, lo, (lo + hi) \div 2) + SumChars(js, (lo + hi) \div 2 + 1, hi)

\* The records are separated by commas.
SerializedLength(text) ==
    HistoryOverhead + SumChars(text.scans, 1, Len(text.scans)) + Max(0, Len(text.scans) - 1)

\* estimateObjectSize (history-utils): JSON.stringify(obj).length * 2
EstimateObjectSize(history) == SerializedLength(JsonStringify(history, 0)) * 2

---------------------------------------------------------------------------
(* The storage medium.  Each primitive either returns or throws; which one *)
(* is the environment's choice for that call.                              *)

\* The test write/remove cycle of isStorageAvailable completes or throws.
Probes == {"ok", "throws"}
GetOutcomes == {"ok", "throws"}
SetOutcomes == {"ok", "quota", "error"}

\* What a call found the medium doing: the probe before the load, getItem,
\* the probe before the save, the first setItem and the retried setItem.
MediumEnv(loadProbe, getItem, saveProbe, setItem1, setItem2) ==
    [loadProbe |-> loadProbe, getItem |-> getItem, saveProbe |-> saveProbe,
     setItem1 |-> setItem1, setItem2 |-> setItem2]

\* The choices a load consults: getItem is reached only past the probe.
LoadChoices ==
    {<<p, g>> \in Probes \X GetOutcomes : p # "ok" => g = "ok"}

\* The choices a save consults: setItem is reached only past the probe, and
\* the second setItem only after the first threw a quota error.
SaveChoices ==
    {<<p, s1, s2>> \in Probes \X SetOutcomes \X SetOutcomes :
        /\ p # "ok" => s1 = "ok"
        /\ s1 # "quota" => s2 = "ok"}

\* The medium works throughout the call.
OkEnv == MediumEnv("ok", "ok", "ok", "ok", "ok")

LoadSaveEnvs ==
    {MediumEnv(l[1], l[2], s[1], s[2], s[3]) : l \in LoadChoices, s \in SaveChoices}
LoadEnvs == {MediumEnv(l[1], l[2], "ok", "ok", "ok") : l \in LoadChoices}
SaveEnvs == {MediumEnv("ok", "ok", s[1], s[2], s[3]) : s \in SaveChoices}

\* localStorage.setItem(key, value): returns, or throws a DOMException named
\* QuotaExceededError, or throws some other Error.
SetItem(outcome) ==
    CASE outcome = "ok"    -> [threw |-> FALSE, isQuota |-> FALSE, message |-> ""]
      [] outcome = "quota" -> [threw |-> TRUE, isQuota |-> TRUE,
                               message |-> "QuotaExceededError"]
      [] outcome = "error" -> [threw |-> TRUE, isQuota |-> FALSE,
                               message |-> "setItem failed"]

\* A store that does not probe the medium.
AlwaysAvailable(probe) == TRUE

\* isStorageAvailable: a test write/remove cycle inside try/catch.

IsStorageAvailable(probe) == probe = "ok"

---------------------------------------------------------------------------
(* Private helpers of ScanHistoryManager *)

CreateEmptyHistory(now) == ScanHistory(TRUE, SCHEMA_VERSION, <<>>, now)

\* A migration that leaves the version as it finds it.
MigrateNothing(oldHistory) == oldHistory

MigrateSchema(oldHistory) ==
    [oldHistory EXCEPT !.hasVersion = TRUE, !.version = SCHEMA_VERSION]

\* A structure check that does not look at scans.
AnyObject(parsed) == parsed.kind = "object"

\* The object passes the structure check of loadHistory and importFromJson:
\* truthy, typeof "object", and scans is an array.
ValidStructure(parsed) == parsed.kind = "object" /\ parsed.isArray

VersionMatches(history) ==
    history.hasVersion /\ history.version = SCHEMA_VERSION

\* The medium kept loadHistory from reading the item: the probe or getItem
\* threw, and the operation goes on with an empty history.
LoadFailed(env) == ~IsStorageAvailable(env.loadProbe) \/ env.getItem = "throws"

\* loadHistory(): the history the operation works on.  It never throws.
LoadHistory(item, env, now) ==
    IF ~IsStorageAvailable(env.loadProbe) THEN CreateEmptyHistory(now)
    ELSE IF env.getItem = "throws" THEN CreateEmptyHistory(now)
    ELSE IF item.kind = "absent" THEN CreateEmptyHistory(now)
    ELSE The({IF parsed.threw THEN CreateEmptyHistory(now)
              ELSE IF ~ValidStructure(parsed) THEN CreateEmptyHistory(now)
              ELSE IF ~VersionMatches(parsed.value) THEN MigrateSchema(parsed.value)
              ELSE parsed.value : parsed \in {JsonParse(item)}})

\* Array.prototype.sort with the comparator of pruneOldScans: stable, most
\* recent timestamp first.  Each record goes behind the records placed so
\* far that are at least as recent.
RECURSIVE InsertByTimestamp(_, _)
InsertByTimestamp(sorted, r) ==
    IF sorted = <<>> THEN <<r>>
    ELSE IF sorted[Len(sorted)].timestamp >= r.timestamp
         THEN Append(sorted, r)
         ELSE Append(InsertByTimestamp(SubSeq(sorted, 1, Len(sorted) - 1), r),
                     sorted[Len(sorted)])

RECURSIVE SortPrefix(_, _)
SortPrefix(scans, k) ==
    IF k = 0 THEN <<>> ELSE InsertByTimestamp(SortPrefix(scans, k - 1), scans[k])

\* A list already in the order is left as it is by the stable sort.
SortByTimestampDesc(scans) ==
    IF \A i \in 1..(Len(scans) - 1) : scans[i].timestamp >= scans[i + 1].timestamp
    THEN scans
    ELSE SortPrefix(scans, Len(scans))

\* A pruning that keeps the first half of the list as it stands.
PruneFirstHalf(history, now) ==
    [history EXCEPT !.scans = SubSeq(history.scans, 1, Len(history.scans) \div 2),
                    !.lastModified = now]

\* pruneOldScans(history, keepRatio = 0.5): both call sites keep one half.
PruneOldScans(history, now) ==
    LET keepCount == Len(history.scans) \div 2
    IN  [history EXCEPT
           !.scans = SubSeq(SortByTimestampDesc(history.scans), 1, keepCount),
           !.lastModified = now]

\* A StorageResult without data (history-types.ts:123-128).
Failure(error) ==
    [success |-> FALSE, error |-> error, warning |-> "", warningPct |-> 0]
Success(warning, pct) ==
    [success |-> TRUE, error |-> "", warning |-> warning, warningPct |-> pct]

\* Math.round((size / STORAGE_LIMIT_BYTES) * 100)
CapacityPercent(size) ==
    (200 * size + STORAGE_LIMIT_BYTES) \div (2 * STORAGE_LIMIT_BYTES)

\* What saveHistory returns and what it leaves under STORAGE_KEY.  `size` is
\* the estimated size of the history it was given and `prunedSize` that of
\* the pruned history (0 when not computed), `attempts` counts the calls of
\* setItem on the key, and `written` tells whether one of them returned.
\* `given` is the list of scans of the history handed to saveHistory.
SaveOutcome(result, item, size, prunedSize, attempts, written) ==
    [result |-> result, stored |-> item, size |-> size, prunedSize |-> prunedSize,
     attempts |-> attempts, written |-> written, given |-> <<>>]

\* A retry that prunes without telling the caller.
QuotaRetrySilent(history, item, env, now, size, prunedSize) ==
    LET retry == SetItem(env.setItem2)
    IN  IF ~retry.threw
        THEN SaveOutcome(Success("", 0), JsonStringify(PruneOldScans(history, now), 0),
                         size, prunedSize, 2, TRUE)
        ELSE SaveOutcome(Failure("Storage quota exceeded and unable to free space"),
                         item, size, prunedSize, 2, FALSE)

\* The catch block of saveHistory for a quota error: prune to one half and
\* write again, without a size check.
QuotaRetry(history, item, env, now, size, prunedSize) ==
    LET retry == SetItem(env.setItem2)
    IN  IF ~retry.threw
        THEN SaveOutcome(Success("Storage quota exceeded. Removed 50% of oldest scans.", 0),
                         JsonStringify(PruneOldScans(history, now), 0),
                         size, prunedSize, 2, TRUE)
        ELSE SaveOutcome(Failure("Storage quota exceeded and unable to free space"),
                         item, size, prunedSize, 2, FALSE)

\* A catch block that swallows the error.
SaveCatchSilent(thrown, history, item, env, now, size, prunedSize) ==
    SaveOutcome(Success("", 0), item, size, prunedSize, 1, FALSE)

\* A catch block that retries after any error.
SaveCatchRetryAny(thrown, history, item, env, now, size, prunedSize) ==
    QuotaRetry(history, item, env, now, size, prunedSize)

\* The catch block of saveHistory.
SaveCatch(thrown, history, item, env, now, size, prunedSize) ==
    IF thrown.isQuota
    THEN QuotaRetry(history, item, env, now, size, prunedSize)
    ELSE SaveOutcome(Failure(thrown.message), item, size, prunedSize, 1, FALSE)

\* A save that writes the pruned history without the recheck.
NeverOverLimit(prunedSize) == FALSE

\* The recheck after pruning: the pruned history is still over the limit.
StillOverLimit(prunedSize) == prunedSize > STORAGE_LIMIT_BYTES

\* The first setItem and what follows it: `text` is what is written,
\* `result` what is returned when the write goes through.
WriteItem(text, result, history, item, env, now, size, prunedSize) ==
    LET first == SetItem(env.setItem1)
    IN  IF first.threw
        THEN SaveCatch(first, history, item, env, now, size, prunedSize)
        ELSE SaveOutcome(result, text, size, prunedSize, 1, TRUE)

\* The branches of saveHistory past the availability check, given the
\* serialized history and its estimated size.
SaveSerialized(serialized, size, history, item, env, now) ==
    IF size > STORAGE_LIMIT_BYTES
    THEN The({The({IF StillOverLimit(prunedSize)
                   THEN SaveOutcome(Failure("Storage quota exceeded even after pruning"),
                                    item, size, prunedSize, 0, FALSE)
                   ELSE WriteItem(pruned,
                          Success("Storage was near capacity. Oldest scans were removed.", 0),
                          history, item, env, now, size, prunedSize)
                   : prunedSize \in {SerializedLength(pruned) * 2}})
              : pruned \in {JsonStringify(PruneOldScans(history, now), 0)}})
    ELSE WriteItem(serialized,
           IF size > WARNING_THRESHOLD
           THEN Success("Storage is at N% capacity", CapacityPercent(size))
           ELSE Success("", 0),
           history, item, env, now, size, 0)

\* saveHistory(history), with `item` the value under STORAGE_KEY before.
SaveHistory(history, item, env, now) ==
    IF ~IsStorageAvailable(env.saveProbe)
    THEN SaveOutcome(Failure("localStorage is not available (private browsing mode?)"),
                     item, 0, 0, 0, FALSE)
    ELSE The({The({[SaveSerialized(serialized, size, history, item, env, now)
                      EXCEPT !.given = history.scans]
                   : size \in {SerializedLength(serialized) * 2}})
              : serialized \in {JsonStringify(history, 0)}})

---------------------------------------------------------------------------
(* String helpers.  A string is a sequence of one-character strings.       *)

LowerChar(c) ==
    CASE c = "A" -> "a" [] c = "B" -> "b" [] c = "P" -> "p" [] c = "X" -> "x"
      [] OTHER -> c

ToLowerCase(str) == [i \in 1..Len(str) |-> LowerChar(str[i])]

\* String.prototype.includes
Includes(str, part) ==
    \E k \in 0..(Len(str) - Len(part)) :
        \A i \in 1..Len(part) : str[k + i] = part[i]

IsSpace(c) == c = " "

\* String.prototype.trim
Trim(str) ==
    LET kept == {i \in 1..Len(str) : ~IsSpace(str[i])}
    IN  IF kept = {} THEN <<>> ELSE SubSeq(str, SetMin(kept), SetMax(kept))

\* sanitizeLabel (history-utils): input.trim().slice(0, 100)
LABEL_MAX_LENGTH == 100
SanitizeLabel(input) == SubSeq(Trim(input), 1, Min(Len(Trim(input)), LABEL_MAX_LENGTH))

\* Array.prototype.filter
RECURSIVE PickFrom(_, _, _, _)
PickFrom(seq, kept, lo, hi) ==
    IF lo > hi THEN <<>>
    ELSE IF lo = hi THEN (IF lo \in kept THEN <<seq[lo]>> ELSE <<>>)
    ELSE PickFrom(seq, kept, lo, (lo + hi) \div 2)
           \o PickFrom(seq, kept, (lo + hi) \div 2 + 1, hi)

\* The scans whose url is, or contains without regard to case, the url.
ScansByUrl(scans, url, exactMatch) ==
    PickFrom(scans,
             {i \in 1..Len(scans) :
                IF exactMatch THEN scans[i].url = url
                ELSE Includes(ToLowerCase(scans[i].url), ToLowerCase(url))},
             1, Len(scans))

\* findIndex whose -1 is used as an index unchecked: splice(-1, 1) and
\* scans[-1] address the last element.
FindIndexOrLast(scans, id) ==
    LET hits == {i \in 1..Len(scans) : scans[i].id = id}
    IN  IF hits = {} THEN Len(scans) ELSE SetMin(hits)

\* Array.prototype.findIndex, 1-based; 0 when nothing is found.
FindIndex(scans, id) ==
    LET hits == {i \in 1..Len(scans) : scans[i].id = id}
    IN  IF hits = {} THEN 0 ELSE SetMin(hits)

\* splice(index) without a count: everything from the index on is removed.
RemoveFrom(scans, index) == SubSeq(scans, 1, index - 1)

\* Array.prototype.splice(index, 1)
RemoveAt(scans, index) ==
    SubSeq(scans, 1, index - 1) \o SubSeq(scans, index + 1, Len(scans))

---------------------------------------------------------------------------
(* The return value of a public operation, as the caller sees it.          *)

NoQuota == [used |-> 0, limit |-> 0, percentTimesLimit |-> 0, scanCount |-> 0]

\* The availability checks the call made all failed: the medium was
\* unavailable to it.  An operation that finds nothing in the empty history
\* does not reach saveHistory.
ProbesThrow(op, env) ==
    CASE op \in {"getAll", "getById", "getByUrl", "filter", "getQuota",
                 "exportAsJson", "delete", "updateLabel"} ->
           env.loadProbe = "throws"
      [] op = "add" -> env.loadProbe = "throws" /\ env.saveProbe = "throws"
      [] op \in {"clear", "importFromJson"} -> env.saveProbe = "throws"
      [] OTHER -> FALSE

Call(op, id, input, env, result, data, text, quota, save) ==
    [op |-> op, id |-> id, input |-> input,
     firstWrite |-> IF save.attempts >= 1 THEN env.setItem1 ELSE "none",
     retryWrite |-> IF save.attempts >= 2 THEN env.setItem2 ELSE "none",
     loadFailed |-> LoadFailed(env), unavailable |-> ProbesThrow(op, env),
     success |-> result.success, error |-> result.error,
     warning |-> result.warning, warningPct |-> result.warningPct,
     saveWarning |-> save.result.warning,
     data |-> data, text |-> text, quota |-> quota,
     size |-> save.size, prunedSize |-> save.prunedSize,
     attempts |-> save.attempts, written |-> save.written, given |-> save.given]

\* `saveWarning` is the warning of the call's saveHistory, which
\* updateLabel does not pass on; `firstWrite` and `retryWrite` are what the
\* medium did on the call's setItem of the key and on its retry.  An operation that did not reach saveHistory:
NoSave(item) == SaveOutcome(Success("", 0), item, 0, 0, 0, FALSE)

NoCall ==
    Call("none", 0, "", OkEnv, Success("", 0), <<>>, AbsentItem, NoQuota,
         NoSave(AbsentItem))

---------------------------------------------------------------------------
(* Inputs of the callers *)

UrlA == <<"a", "/", "P">>
UrlB == <<"b", "/", "x">>

\* What a caller passes to add; the page passes no label.
ScanInput(url, mode, report, label, discoveredUrls) ==
    [url |-> url, mode |-> mode, report |-> report, label |-> label,
     discoveredUrls |-> discoveredUrls]
ScanInputs ==
    {ScanInput(UrlA, "single", SmallReport, Undefined, UndefinedList),
     ScanInput(UrlB, "exploration", BigReport, <<" ", "n">>, <<UrlA, UrlB>>),
     ScanInput(UrlB, "exploration", HugeReport, Undefined, <<UrlA>>)}

UpdateLabels == {<<>>, <<" ", "o", "k", " ">>, Repeat("x", LABEL_MAX_LENGTH + 1)}

UrlQueries == {<<"p">>, UrlA}

\* A HistoryFilter (history-types.ts:106-118); has* tells whether the
\* criterion is given.
HistoryFilter(hasUrl, url, hasMode, mode, hasDateFrom, dateFrom, hasDateTo, dateTo, hasMin, minViolations, hasMax, maxViolations) ==
    [hasUrl |-> hasUrl, url |-> url, hasMode |-> hasMode, mode |-> mode,
     hasDateFrom |-> hasDateFrom, dateFrom |-> dateFrom,
     hasDateTo |-> hasDateTo, dateTo |-> dateTo,
     hasMin |-> hasMin, minViolations |-> minViolations,
     hasMax |-> hasMax, maxViolations |-> maxViolations]

Filters ==
    {HistoryFilter(FALSE, <<>>, FALSE, "", FALSE, 0, FALSE, 0, FALSE, 0, FALSE, 0),
     HistoryFilter(TRUE, <<"A">>, TRUE, "single", FALSE, 0, FALSE, 0, TRUE, 1, FALSE, 0),
     HistoryFilter(FALSE, <<>>, FALSE, "", TRUE, 2, TRUE, MAX_SCANS, FALSE, 0, TRUE, 3)}

\* A history the store has written: n small scans added one per tick, the
\* most recent first.
StoredScan(k) ==
    ScanRecord(k, UrlA, "single", k, SmallReport,
               ParseReportMetadata(SmallReport, "single"), Undefined, UndefinedList)
AddedHistory(n) ==
    ScanHistory(TRUE, SCHEMA_VERSION, [i \in 1..n |-> StoredScan(n + 1 - i)], n)

\* A history of two big scans: above the warning threshold, below the limit.
BigScan(k) ==
    ScanRecord(k, UrlB, "exploration", k, BigReport,
               ParseReportMetadata(BigReport, "exploration"), <<"b">>, <<UrlA>>)
TwoBigHistory == ScanHistory(TRUE, SCHEMA_VERSION, <<BigScan(2), BigScan(1)>>, 2)

\* Scans exported by another installation.
ForeignScan(k, timestamp, report) ==
    ScanRecord(1000 + k, UrlB, "single", timestamp, report,
               ParseReportMetadata(report, "single"), Undefined, UndefinedList)

\* What can be under STORAGE_KEY when the page starts.
InitialItems ==
    {AbsentItem, NonObjectText("malformed"),
     JsonText("object", TRUE, SCHEMA_VERSION, FALSE, <<>>, 0, 0),
     JsonStringify(ScanHistory(TRUE, 0, AddedHistory(2).scans, 2), 0),
     JsonStringify(TwoBigHistory, 0)}
    \cup {JsonStringify(AddedHistory(n), 0) : n \in {0, 1, 3, MAX_SCANS - 1, MAX_SCANS}}

\* The texts handed to importFromJson, by name.
PayloadNames ==
    {"malformed", "null", "primitive", "noScansArray", "noVersion", "oldVersion",
     "unsorted", "unsortedBig", "twoHuge", "sameIdTwice", "tooMany"}

Payload(name) ==
    CASE name = "malformed" -> NonObjectText("malformed")
      [] name = "null" -> NonObjectText("null")
      [] name = "primitive" -> NonObjectText("primitive")
      [] name = "noScansArray" ->
           JsonText("object", TRUE, SCHEMA_VERSION, FALSE, <<>>, 0, 2)
      [] name = "noVersion" ->
           JsonStringify(ScanHistory(FALSE, 0,
               <<ForeignScan(2, 2, SmallReport), ForeignScan(1, 1, SmallReport)>>, 2), 2)
      [] name = "oldVersion" ->
           JsonStringify(ScanHistory(TRUE, 0,
               <<ForeignScan(2, 2, SmallReport), ForeignScan(1, 1, SmallReport)>>, 2), 2)
      [] name = "unsorted" ->
           JsonStringify(ScanHistory(TRUE, SCHEMA_VERSION,
               <<ForeignScan(1, 1, SmallReport), ForeignScan(3, 3, SmallReport),
                 ForeignScan(2, 2, SmallReport)>>, 3), 2)
      [] name = "unsortedBig" ->
           JsonStringify(ScanHistory(TRUE, SCHEMA_VERSION,
               <<ForeignScan(2, 2, BigReport), ForeignScan(5, 5, BigReport),
                 ForeignScan(1, 1, BigReport), ForeignScan(4, 4, BigReport),
                 ForeignScan(3, 3, BigReport)>>, 5), 2)
      [] name = "twoHuge" ->
           JsonStringify(ScanHistory(TRUE, SCHEMA_VERSION,
               <<ForeignScan(2, 2, HugeReport), ForeignScan(1, 1, HugeReport)>>, 2), 2)
      [] name = "sameIdTwice" ->
           JsonStringify(ScanHistory(TRUE, SCHEMA_VERSION,
               <<ForeignScan(1, 2, SmallReport), ForeignScan(1, 1, SmallReport)>>, 2), 2)
      [] name = "tooMany" ->
           JsonStringify(ScanHistory(TRUE, SCHEMA_VERSION,
               [i \in 1..(MAX_SCANS + 1) |->
                  ForeignScan(MAX_SCANS + 2 - i, MAX_SCANS + 2 - i, SmallReport)],
               MAX_SCANS + 1), 2)

---------------------------------------------------------------------------
(* The comparison engine (comparison-engine.ts): pure functions of two     *)
(* scan records.                                                           *)

\* Math.floor(n / d) of the integers n and d > 0.
FloorDiv(n, d) == IF n >= 0 THEN n \div d ELSE -((-n + d - 1) \div d)

\* Math.trunc in the place of Math.round: the fraction is cut off.
MathTrunc(n, d) == IF n >= 0 THEN n \div d ELSE -((-n) \div d)

\* Math.round(n / d) of the rational n / d, d > 0: the nearest integer, a
\* tie going up.  For the totals of this model (below 80) the double the
\* code rounds is on the same side of the tie as the exact quotient.
MathRound(n, d) == FloorDiv(2 * n + d, 2 * d)

\* overall.percentageChange in tenths of a percent:
\* Math.round(percentageChange * 10) / 10, times ten.
PercentageChangeTenths(baselineTotal, currentTotal) ==
    IF baselineTotal > 0
    THEN MathRound((currentTotal - baselineTotal) * 100 * 10, baselineTotal)
    ELSE IF currentTotal > 0 THEN MathRound(100 * 10, 1)
    ELSE MathRound(0, 1)

\* A severity entry whose differences are not clamped at 0.
SeverityEntrySigned(baselineCount, currentCount) ==
    [baselineCount |-> baselineCount, currentCount |-> currentCount,
     fixed |-> baselineCount - currentCount,
     new |-> currentCount - baselineCount,
     unchanged |-> Min(baselineCount, currentCount)]

\* A severity entry that takes the baseline count for the unchanged ones.
SeverityEntryOfBaseline(baselineCount, currentCount) ==
    [baselineCount |-> baselineCount, currentCount |-> currentCount,
     fixed |-> Max(0, baselineCount - currentCount),
     new |-> Max(0, currentCount - baselineCount),
     unchanged |-> baselineCount]

\* bySeverity[severity] of compareScanRecords.
SeverityEntry(baselineCount, currentCount) ==
    [baselineCount |-> baselineCount, currentCount |-> currentCount,
     fixed |-> Max(0, baselineCount - currentCount),
     new |-> Max(0, currentCount - baselineCount),
     unchanged |-> Min(baselineCount, currentCount)]

\* compareScanRecords(baseline, current), compared at the time `now`.
CompareScanRecords(baseline, current, now) ==
    LET baselineTotal == baseline.metadata.totalViolations
        currentTotal == current.metadata.totalViolations
    IN  [baseline |-> baseline, current |-> current,
         overall |->
           [baselineTotal |-> baselineTotal, currentTotal |-> currentTotal,
            fixed |-> Max(0, baselineTotal - currentTotal),
            new |-> Max(0, currentTotal - baselineTotal),
            unchanged |-> Min(baselineTotal, currentTotal),
            percentageChangeTenths |->
               PercentageChangeTenths(baselineTotal, currentTotal)],
         bySeverity |->
           [severity \in {"critical", "serious", "moderate", "minor"} |->
              SeverityEntry(baseline.metadata[severity], current.metadata[severity])],
         comparedAt |-> now]

\* A score without the floor at 0.
QualityScoreUnfloored(record) ==
    100 - (record.metadata.critical * 10 + record.metadata.serious * 5
           + record.metadata.moderate * 2 + record.metadata.minor * 1)

\* calculateQualityScore(record)
CalculateQualityScore(record) ==
    LET deductions == record.metadata.critical * 10 + record.metadata.serious * 5
                      + record.metadata.moderate * 2 + record.metadata.minor * 1
    IN  MathRound(Max(0, 100 - deductions), 1)

\* A sentence of getComparisonSummary: the template and the numbers put
\* into it (0 for a place the template does not have).
Sentence(template, n, m) == [template |-> template, n |-> n, m |-> m]

\* A summary that looks at equal totals before it looks at zero totals.
GetComparisonSummaryEqualFirst(comparison) ==
    IF comparison.overall.currentTotal = comparison.overall.baselineTotal
    THEN Sentence("No change in violation count", 0, 0)
    ELSE IF comparison.overall.currentTotal = 0
    THEN Sentence("All N violations fixed!", comparison.overall.baselineTotal, 0)
    ELSE Sentence("N fixed, M new", comparison.overall.fixed, comparison.overall.new)

\* getComparisonSummary(comparison)
GetComparisonSummary(comparison) ==
    LET overall == comparison.overall
        bySeverity == comparison.bySeverity
        hasImprovements ==
            \E severity \in DOMAIN bySeverity : bySeverity[severity].fixed > 0
        hasRegressions ==
            \E severity \in DOMAIN bySeverity : bySeverity[severity].new > 0
    IN  IF overall.currentTotal = 0 /\ overall.baselineTotal = 0
        THEN Sentence("Both scans have no violations", 0, 0)
        ELSE IF overall.currentTotal = 0
        THEN Sentence("All N violations fixed!", overall.baselineTotal, 0)
        ELSE IF overall.baselineTotal = 0
        THEN Sentence("N new violations detected", overall.currentTotal, 0)
        ELSE IF overall.currentTotal = overall.baselineTotal
        THEN Sentence("No change in violation count", 0, 0)
        ELSE IF hasImprovements /\ hasRegressions
        THEN Sentence("N fixed, M new", overall.fixed, overall.new)
        ELSE IF overall.fixed > 0 /\ overall.new = 0
        THEN Sentence("N violations fixed", overall.fixed, 0)
        ELSE IF overall.new > 0 /\ overall.fixed = 0
        THEN Sentence("N new violations", overall.new, 0)
        ELSE Sentence("N fixed, M new", overall.fixed, overall.new)

\* The severities in the order of the loop of getMostSignificantChange,
\* and |currentCount - baselineCount| of the k-th.
SeverityOrder == <<"critical", "serious", "moderate", "minor">>
ChangeOf(comparison, k) ==
    LET data == comparison.bySeverity[SeverityOrder[k]]
    IN  Max(data.currentCount - data.baselineCount,
            data.baselineCount - data.currentCount)

\* A loop that replaces the maximum on change >= maxChange.
GetLastSignificantChange(comparison) ==
    SeverityOrder[SetMax({k \in 1..4 :
                            \A j \in 1..4 : ChangeOf(comparison, j)
                                               <= ChangeOf(comparison, k)})]

\* getMostSignificantChange(comparison): the loop keeps the first severity
\* whose change is above every change before it; "null" when none is above 0.
GetMostSignificantChange(comparison) ==
    LET risen == {k \in 1..4 :
                    /\ ChangeOf(comparison, k) > 0
                    /\ \A j \in 1..(k - 1) :
                          ChangeOf(comparison, j) < ChangeOf(comparison, k)}
    IN  IF risen = {} THEN "null" ELSE SeverityOrder[SetMax(risen)]

\* isImprovement(comparison)
IsImprovement(comparison) ==
    comparison.overall.currentTotal < comparison.overall.baselineTotal

\* A regression test that takes equal totals for a regression.
IsRegressionOrEqual(comparison) ==
    comparison.overall.currentTotal >= comparison.overall.baselineTotal

\* isRegression(comparison)
IsRegression(comparison) ==
    comparison.overall.currentTotal > comparison.overall.baselineTotal

\* The difference taken the other way round.
CompareQualityScoresReversed(baseline, current) ==
    CalculateQualityScore(baseline) - CalculateQualityScore(current)

\* compareQualityScores(baseline, current)
CompareQualityScores(baseline, current) ==
    CalculateQualityScore(current) - CalculateQualityScore(baseline)

\* validateComparison(scan1, scan2); hasWarning tells whether the result
\* carries the warning property.
ValidateComparison(scan1, scan2) ==
    IF scan1.url # scan2.url
    THEN [valid |-> TRUE, hasWarning |-> TRUE,
          warning |-> "Comparing scans from different URLs"]
    ELSE IF scan1.mode # scan2.mode
    THEN [valid |-> TRUE, hasWarning |-> TRUE,
          warning |-> "Comparing scans with different modes (single vs exploration)"]
    ELSE IF scan1.id = scan2.id
    THEN [valid |-> FALSE, hasWarning |-> TRUE,
          warning |-> "Cannot compare a scan with itself"]
    ELSE [valid |-> TRUE, hasWarning |-> FALSE, warning |-> ""]

\* The metadata of a record with the counts by severity and `extra`
\* violations that the report's summary line counts beyond them.
CountedMetadata(counts, extra) ==
    [totalViolations |-> counts[1] + counts[2] + counts[3] + counts[4] + extra,
     critical |-> counts[1], serious |-> counts[2],
     moderate |-> counts[3], minor |-> counts[4],
     pageCount |-> 1, wcagLevel |-> ""]

\* The counts of the records that are compared: every combination up to
\* MaxCount for each severity, and samples with larger totals, among them
\* totals of 7, 9, 15, 16, 17 and 20 and deductions of 100 and above.
MaxCount == 2
SampleCounts ==
    {<<5, 10, 3, 2>>, <<2, 3, 2, 2>>, <<1, 2, 3, 1>>, <<4, 4, 4, 4>>,
     <<4, 4, 4, 5>>, <<9, 1, 2, 1>>, <<11, 0, 0, 0>>, <<6, 11, 4, 3>>}
ComparedMetadata ==
    {CountedMetadata(counts, 0) :
        counts \in ((0..MaxCount) \X (0..MaxCount) \X (0..MaxCount) \X (0..MaxCount))
                    \cup SampleCounts}
    \cup {CountedMetadata(<<0, 0, 0, 0>>, 15)}

\* A stored scan with the metadata, as the comparison view takes it from
\* the history.
ComparedScan(id, url, mode, metadata) ==
    ScanRecord(id, url, mode, id, SmallReport, metadata, Undefined, UndefinedList)

\* What the view last asked of the engine, and the answer.
EngineCall(op, scan1, scan2, result) ==
    [op |-> op, scan1 |-> scan1, scan2 |-> scan2, result |-> result]
NoEngineCall == EngineCall("none", StoredScan(1), StoredScan(1), 0)

\* The report and mode handed to parseReportMetadata, and, once it has
\* returned, the metadata.
ParseCall(lines, mode, returned, metadata) ==
    [lines |-> lines, mode |-> mode, returned |-> returned, metadata |-> metadata]
NoParse == ParseCall(<<>>, "single", FALSE, ParseReportText(<<>>, "single"))

---------------------------------------------------------------------------
(* The multi-agent orchestrator (multi-agent-orchestrator.ts): a discovery *)
(* agent, page scanner agents, and a summarizer agent.                     *)

\* The last message of the discovery agent: a JSON text (malformed, the
\* value null, or an object that has or lacks its two required fields),
\* inside a ```json fence or not, with other text around it or not.
DiscoveryOutput(fenced, prose, json, hasMainPageUrl, hasDiscoveredUrls, urls) ==
    [fenced |-> fenced, prose |-> prose, json |-> json,
     hasMainPageUrl |-> hasMainPageUrl, hasDiscoveredUrls |-> hasDiscoveredUrls,
     urls |-> urls]
NoOutput == DiscoveryOutput(FALSE, FALSE, "none", FALSE, FALSE, <<>>)

\* The text handed to JSON.parse: the inside of the fence when there is
\* one, else the whole output, which is not JSON when it has other text.
JsonString(rawOutput) ==
    IF rawOutput.fenced THEN rawOutput.json
    ELSE IF rawOutput.prose THEN "malformed" ELSE rawOutput.json

UrlDiscoveryResult(threw, error, mainPageUrl, mainPageHtml, discoveredUrls) ==
    [threw |-> threw, error |-> error, mainPageUrl |-> mainPageUrl,
     mainPageHtml |-> mainPageHtml, discoveredUrls |-> discoveredUrls]
FallbackResult == UrlDiscoveryResult(FALSE, "", "", "", <<>>)
NoDiscovery == UrlDiscoveryResult(FALSE, "", "none", "", <<>>)

\* parseDiscoveryResult(rawOutput): JSON.parse is not inside a try.
ParseDiscoveryResult(rawOutput) ==
    IF JsonString(rawOutput) = "malformed"
    THEN UrlDiscoveryResult(TRUE, "SyntaxError", "", "", <<>>)
    ELSE IF JsonString(rawOutput) = "null"
    THEN UrlDiscoveryResult(TRUE, "TypeError", "", "", <<>>)
    ELSE IF ~rawOutput.hasMainPageUrl \/ ~rawOutput.hasDiscoveredUrls
    THEN FallbackResult
    ELSE UrlDiscoveryResult(FALSE, "", "main", "html", rawOutput.urls)

\* The last message of a page scanner agent: it states a total or not, and
\* carries a number of severity markers.
ScanData(hasTotal, total, markers) ==
    [hasTotal |-> hasTotal, total |-> total, markers |-> markers]

\* extractViolationCount(scanData)
ExtractViolationCount(scanData) ==
    IF scanData.hasTotal THEN scanData.total ELSE scanData.markers

\* Every discovered url is scanned.
UrlsToScanUnsliced(discoveredUrls) == discoveredUrls

\* discoveredUrls.slice(0, 4).map((u) => u.url)
UrlsToScan(discoveredUrls) == SubSeq(discoveredUrls, 1, Min(4, Len(discoveredUrls)))

\* The concurrency option of pMap in runPageScannerAgentBatch.
PAGE_SCAN_CONCURRENCY == 3

\* A page of the batch: its url, where its scanSingleUrl call stands
\* (waiting, running, done, failed), and the violations it returned.
PageScan(pageUrl, status, violations) ==
    [pageUrl |-> pageUrl, status |-> status, violations |-> violations]

InStatus(pages, status) == {i \in 1..Len(pages) : pages[i].status = status}

\* pMap calls the mapper on the next url while fewer than `concurrency`
\* calls are pending.
RECURSIVE StartNext(_)
StartNext(pages) ==
    IF InStatus(pages, "waiting") = {}
         \/ Cardinality(InStatus(pages, "running")) >= PAGE_SCAN_CONCURRENCY
    THEN pages
    ELSE StartNext([pages EXCEPT ![The({i \in InStatus(pages, "waiting") :
                                          \A j \in InStatus(pages, "waiting") : i <= j})].status
                                   = "running"])

\* pageScanResults.reduce((sum, scan) => sum + scan.violations, 0)
RECURSIVE TotalOfPages(_)
TotalOfPages(pages) ==
    IF pages = <<>> THEN 0
    ELSE pages[1].violations + TotalOfPages(Tail(pages))

\* A runMultiAgentScan call: the phase it is in, the discovery agent's
\* output and its parsed result, the pages of the batch, the number of
\* summarizer calls, and the totalViolations of the returned result.
MultiAgentScan(phase, output, discovery, pages, summarizerCalls, totalViolations) ==
    [phase |-> phase, output |-> output, discovery |-> discovery, pages |-> pages,
     summarizerCalls |-> summarizerCalls, totalViolations |-> totalViolations]
NoScan == MultiAgentScan("none", NoOutput, NoDiscovery, <<>>, 0, 0)

\* Two pages (tabs) that share the item under STORAGE_KEY.  An add call of
\* a page: where it stands (idle, loaded, done), the record it created, the
\* history it holds between its getItem and its setItem, whether its load
\* failed, the steps at which it loaded and wrote, and its result.
Callers == {1, 2}

AddCall(pc, scan, history, loadFailed, loadStep, writeStep, success, warning) ==
    [pc |-> pc, scan |-> scan, history |-> history, loadFailed |-> loadFailed,
     loadStep |-> loadStep, writeStep |-> writeStep, success |-> success,
     warning |-> warning]
NoCallers ==
    [c \in Callers |->
       AddCall("idle", StoredScan(1), ScanHistory(TRUE, SCHEMA_VERSION, <<>>, 0),
               FALSE, 0, 0, FALSE, "")]

\* The page (page.tsx:15-39): pageState, results, error and currentScanId
\* ("" and 0 stand for null), the notification, the fetch of handleScan
\* that is under way, the response it got last, and the number of
\* ScanHistoryManager.add calls handleScan has made.
Notification(type, message) == [type |-> type, message |-> message]
NoNotification == Notification("none", "")
ScanRequest(pending, url, mode) == [pending |-> pending, url |-> url, mode |-> mode]
HttpResponse(rejected, ok, status, data, error, discoveredUrls) ==
    [rejected |-> rejected, ok |-> ok, status |-> status, data |-> data,
     error |-> error, discoveredUrls |-> discoveredUrls]
NoResponse == HttpResponse(FALSE, FALSE, "", "", "", UndefinedList)
Home(pageState, results, error, currentScanId, notification, request, response, adds) ==
    [pageState |-> pageState, results |-> results, error |-> error,
     currentScanId |-> currentScanId, notification |-> notification,
     request |-> request, response |-> response, adds |-> adds]
NoHome ==
    Home("form", "", "", 0, NoNotification, ScanRequest(FALSE, <<>>, "single"),
         NoResponse, 0)

---------------------------------------------------------------------------
(* The state machine *)

InitialClock == MAX_SCANS + 1

Init ==
    /\ stored \in InitialItems
    /\ clock = InitialClock
    /\ nextId = MAX_SCANS + 1
    /\ opCount = 0
    /\ lastCall = NoCall
    /\ engine = NoEngineCall
    /\ parser = NoParse
    /\ multiScan = NoScan
    /\ callers = NoCallers
    /\ home = NoHome

\* The callers make at most MaxOps calls.
CanCall == opCount < MaxOps

\* A read that writes the history it loaded back under STORAGE_KEY.
ReadStepWritingBack(call, env) ==
    /\ opCount' = opCount + 1
    /\ lastCall' = call
    /\ stored' = JsonStringify(LoadHistory(stored, env, clock), 0)
    /\ UNCHANGED <<clock, nextId, engine, parser, multiScan, callers, home>>

\* A read: only the probe of loadHistory touches the medium.
ReadStep(call, env) ==
    /\ opCount' = opCount + 1
    /\ lastCall' = call
    /\ UNCHANGED <<stored, clock, nextId, engine, parser, multiScan, callers, home>>

\* A result that carries a list of scans and involves no write.
ReadResult(op, id, env, result, data) ==
    Call(op, id, "", env, result, data, AbsentItem, NoQuota, NoSave(stored))

\* getAll()
GetAll ==
    /\ CanCall
    /\ \E env \in LoadEnvs :
         \E history \in {LoadHistory(stored, env, clock)} :
           ReadStep(ReadResult("getAll", 0, env, Success("", 0), history.scans), env)

\* Ids a caller asks for: the first and the last stored one, and a missing one.
StoredScans == IF stored.kind = "object" /\ stored.scansIsArray THEN stored.scans ELSE <<>>
IdChoices ==
    {0} \cup {StoredScans[i].id : i \in {1, Len(StoredScans)} \cap DOMAIN StoredScans}

\* getById(id)
GetById ==
    /\ CanCall
    /\ \E env \in LoadEnvs, id \in IdChoices :
         \E history \in {LoadHistory(stored, env, clock)} :
         \E index \in {FindIndex(history.scans, id)} :
           ReadStep(IF index = 0
                    THEN ReadResult("getById", id, env, Failure("Scan with ID not found"), <<>>)
                    ELSE ReadResult("getById", id, env, Success("", 0), <<history.scans[index]>>),
                    env)

\* getByUrl(url, exactMatch)
GetByUrl ==
    /\ CanCall
    /\ \E env \in LoadEnvs, url \in UrlQueries, exactMatch \in BOOLEAN :
         \E history \in {LoadHistory(stored, env, clock)} :
           ReadStep(
             ReadResult("getByUrl", 0, env, Success("", 0),
               ScansByUrl(history.scans, url, exactMatch)),
             env)

\* The criteria of filter(criteria), all of which a scan must meet.
MeetsCriteria(r, criteria) ==
    /\ (criteria.hasUrl /\ criteria.url # <<>>)
          => Includes(ToLowerCase(r.url), ToLowerCase(criteria.url))
    /\ (criteria.hasMode /\ criteria.mode # "") => r.mode = criteria.mode
    /\ criteria.hasDateFrom => r.timestamp >= criteria.dateFrom
    /\ criteria.hasDateTo => r.timestamp <= criteria.dateTo
    /\ criteria.hasMin => r.metadata.totalViolations >= criteria.minViolations
    /\ criteria.hasMax => r.metadata.totalViolations <= criteria.maxViolations

\* filter(criteria)
Filter ==
    /\ CanCall
    /\ \E env \in LoadEnvs, criteria \in Filters :
         \E history \in {LoadHistory(stored, env, clock)} :
           ReadStep(
             ReadResult("filter", 0, env, Success("", 0),
               PickFrom(history.scans,
                        {i \in 1..Len(history.scans) :
                           MeetsCriteria(history.scans[i], criteria)},
                        1, Len(history.scans))),
             env)

\* A quota that counts one byte per character.
StorageQuotaInChars(used, scanCount) ==
    [used |-> used \div 2, limit |-> STORAGE_LIMIT_BYTES,
     percentTimesLimit |-> Min((used \div 2) * 100, STORAGE_LIMIT_BYTES * 100),
     scanCount |-> scanCount]

\* The StorageQuota of getQuota(); percentageUsed is percentTimesLimit / limit.
StorageQuota(used, scanCount) ==
    [used |-> used, limit |-> STORAGE_LIMIT_BYTES,
     percentTimesLimit |-> Min(used * 100, STORAGE_LIMIT_BYTES * 100),
     scanCount |-> scanCount]

\* getQuota()
GetQuota ==
    /\ CanCall
    /\ \E env \in LoadEnvs :
         \E history \in {LoadHistory(stored, env, clock)} :
         \E used \in {EstimateObjectSize(history)} :
           ReadStep(Call("getQuota", 0, "", env, Success("", 0), <<>>, AbsentItem,
                         StorageQuota(used, Len(history.scans)), NoSave(stored)), env)

\* The result of exportAsJson(): the loaded history, pretty-printed.
ExportCall(item, env, now) ==
    Call("exportAsJson", 0, "", env, Success("", 0), <<>>,
         JsonStringify(LoadHistory(item, env, now), 2), NoQuota, NoSave(item))

\* exportAsJson()
ExportAsJson ==
    /\ CanCall
    /\ \E env \in LoadEnvs :
         \E call \in {ExportCall(stored, env, clock)} : ReadStep(call, env)

\* A mutating operation's step: what the save left under STORAGE_KEY and
\* the result handed to the caller.
WriteStep(save, call) ==
    /\ opCount' = opCount + 1
    /\ stored' = save.stored
    /\ lastCall' = call
    /\ UNCHANGED <<engine, parser, multiScan, callers, home>>

\* unshift(scan) with no limit on the length.
PrependUnlimited(scan, scans) == <<scan>> \o scans

\* The scans after unshift(scan) and the MAX_SCANS limit.
Prepend(scan, scans) ==
    IF Len(scans) + 1 > MAX_SCANS
    THEN SubSeq(<<scan>> \o scans, 1, MAX_SCANS)
    ELSE <<scan>> \o scans

\* add(url, mode, report, label, discoveredUrls)
Add ==
    /\ CanCall
    /\ \E env \in LoadSaveEnvs, in \in ScanInputs, tick \in {0, 1} :
         \E now \in {clock + tick} :
         \E history \in {LoadHistory(stored, env, now)} :
         \E scan \in {ScanRecord(nextId, in.url, in.mode, now, in.report,
                                 ParseReportMetadata(in.report, in.mode), in.label,
                                 in.discoveredUrls)} :
         \E added \in {[history EXCEPT !.scans = Prepend(scan, history.scans),
                                        !.lastModified = now]} :
         \E save \in {SaveHistory(added, stored, env, now)} :
           /\ WriteStep(save, Call("add", nextId, in.report, env, save.result,
                             IF save.result.success THEN <<scan>> ELSE <<>>,
                             AbsentItem, NoQuota, save))
           /\ clock' = now
           /\ nextId' = nextId + 1

\* The not-found result of delete and updateLabel; saveHistory is not reached.
NotFoundStep(op, id, env) ==
    /\ env.saveProbe = "ok" /\ env.setItem1 = "ok"
    /\ WriteStep(NoSave(stored),
                 Call(op, id, "", env, Failure("Scan with ID not found"), <<>>,
                      AbsentItem, NoQuota, NoSave(stored)))

\* delete(id)
Delete ==
    /\ CanCall
    /\ \E env \in LoadSaveEnvs, id \in IdChoices :
         \E history \in {LoadHistory(stored, env, clock)} :
         \E index \in {FindIndex(history.scans, id)} :
           /\ IF index = 0
              THEN NotFoundStep("delete", id, env)
              ELSE \E remaining \in {[history EXCEPT
                                         !.scans = RemoveAt(history.scans, index),
                                         !.lastModified = clock]} :
                   \E save \in {SaveHistory(remaining, stored, env, clock)} :
                     WriteStep(save, Call("delete", id, "", env, save.result, <<>>,
                                    AbsentItem, NoQuota, save))
           /\ UNCHANGED <<clock, nextId>>

\* clear()
Clear ==
    /\ CanCall
    /\ \E env \in SaveEnvs :
         \E history \in {CreateEmptyHistory(clock)} :
         \E save \in {SaveHistory(history, stored, env, clock)} :
           /\ WriteStep(save, Call("clear", 0, "", env, save.result, <<>>,
                             AbsentItem, NoQuota, save))
           /\ UNCHANGED <<clock, nextId>>

\* The label updateLabel stores: an empty label clears it.
NewLabel(label) == IF label # <<>> THEN SanitizeLabel(label) ELSE Undefined

\* A label written to every record of the list.
SetLabelOfAll(scans, index, label) ==
    [i \in 1..Len(scans) |-> [scans[i] EXCEPT !.label = NewLabel(label)]]

\* scan.label = label ? sanitizeLabel(label) : undefined, on the found scan.
SetLabel(scans, index, label) ==
    [scans EXCEPT ![index].label = NewLabel(label)]

\* updateLabel(id, label): the result of a successful save is replaced by
\* one without its warning.
UpdateLabel ==
    /\ CanCall
    /\ \E env \in LoadSaveEnvs, id \in IdChoices, label \in UpdateLabels :
         \E history \in {LoadHistory(stored, env, clock)} :
         \E index \in {FindIndex(history.scans, id)} :
           /\ IF index = 0
              THEN NotFoundStep("updateLabel", id, env)
              ELSE \E updated \in {[history EXCEPT
                                       !.scans = SetLabel(history.scans, index, label),
                                       !.lastModified = clock]} :
                   \E save \in {SaveHistory(updated, stored, env, clock)} :
                     WriteStep(save, Call("updateLabel", id, label, env,
                                    IF save.result.success THEN Success("", 0)
                                    ELSE save.result,
                                    IF save.result.success
                                    THEN <<updated.scans[index]>> ELSE <<>>,
                                    AbsentItem, NoQuota, save))
           /\ UNCHANGED <<clock, nextId>>

\* The texts a caller imports: one of the payloads, or the text the
\* preceding exportAsJson returned.
ImportInputs ==
    PayloadNames \cup (IF lastCall.op = "exportAsJson" /\ lastCall.success
                       THEN {"exported"} ELSE {})
ImportText(name) == IF name = "exported" THEN lastCall.text ELSE Payload(name)

\* importFromJson(json)
ImportFromJson ==
    /\ CanCall
    /\ \E env \in SaveEnvs, name \in ImportInputs :
         \E imported \in {JsonParse(ImportText(name))} :
           /\ IF imported.threw \/ ~ValidStructure(imported)
              THEN /\ env.saveProbe = "ok" /\ env.setItem1 = "ok"
                   /\ WriteStep(NoSave(stored), Call("importFromJson", 0, name, env,
                                     IF imported.threw THEN Failure(imported.error)
                                     ELSE Failure("Invalid import data structure"),
                                     <<>>, AbsentItem, NoQuota, NoSave(stored)))
              ELSE \E history \in {IF VersionMatches(imported.value) THEN imported.value
                                    ELSE MigrateSchema(imported.value)} :
                   \E save \in {SaveHistory(history, stored, env, clock)} :
                     WriteStep(save, Call("importFromJson", 0, name, env, save.result, <<>>,
                                    AbsentItem, NoQuota, save))
           /\ UNCHANGED <<clock, nextId>>

Next ==
    \/ GetAll
    \/ GetById
    \/ GetByUrl
    \/ Filter
    \/ GetQuota
    \/ ExportAsJson
    \/ Add
    \/ Delete
    \/ Clear
    \/ UpdateLabel
    \/ ImportFromJson

Spec == Init /\ [][Next]_vars

\* The store right after an exportAsJson(): the caller holds the exported
\* text, and the next operation may import it.
InitAfterExport ==
    /\ stored \in InitialItems
    /\ clock = InitialClock
    /\ nextId = MAX_SCANS + 1
    /\ opCount = 0
    /\ lastCall \in {ExportCall(stored, env, clock) : env \in LoadEnvs}
    /\ engine = NoEngineCall
    /\ parser = NoParse
    /\ multiScan = NoScan
    /\ callers = NoCallers
    /\ home = NoHome

SpecAfterExport == InitAfterExport /\ [][Next]_vars

\* The comparison view: the store holds a history and the view hands pairs
\* of records to the engine.
InitCompare ==
    /\ stored = JsonStringify(AddedHistory(2), 0)
    /\ clock = InitialClock
    /\ nextId = MAX_SCANS + 1
    /\ opCount = 0
    /\ lastCall = NoCall
    /\ engine = NoEngineCall
    /\ parser = NoParse
    /\ multiScan = NoScan
    /\ callers = NoCallers
    /\ home = NoHome

\* The view makes one call of the engine on the records it holds.
CanAsk == engine.op = "none"

EngineStep(call) ==
    /\ engine' = call
    /\ UNCHANGED <<stored, clock, nextId, opCount, lastCall, parser, multiScan, callers, home>>

\* compareScanRecords(baseline, current) on two records of one url and mode.
Compare ==
    /\ CanAsk
    /\ \E m1 \in ComparedMetadata, m2 \in ComparedMetadata :
      \E baseline \in {ComparedScan(1, UrlA, "single", m1)} :
      \E current \in {ComparedScan(2, UrlA, "single", m2)} :
        EngineStep(EngineCall("compareScanRecords", baseline, current,
                              CompareScanRecords(baseline, current, clock)))

\* calculateQualityScore(record)
QualityScore ==
    /\ CanAsk
    /\ \E m \in ComparedMetadata :
      \E record \in {ComparedScan(1, UrlA, "single", m)} :
        EngineStep(EngineCall("calculateQualityScore", record, record,
                              CalculateQualityScore(record)))

\* validateComparison(scan1, scan2) on records that agree or differ in id,
\* url and mode.
ValidatedScans ==
    {ComparedScan(i, u, m, CountedMetadata(<<0, 1, 0, 0>>, 0)) :
        i \in {1, 2}, u \in {UrlA, UrlB}, m \in {"single", "exploration"}}
Validate ==
    /\ CanAsk
    /\ \E scan1 \in ValidatedScans, scan2 \in ValidatedScans :
        EngineStep(EngineCall("validateComparison", scan1, scan2,
                              ValidateComparison(scan1, scan2)))

\* The pairs of records the view derives its texts from.
ComparedPairs ==
    {<<ComparedScan(1, UrlA, "single", m1), ComparedScan(2, UrlA, "single", m2)>> :
        m1 \in ComparedMetadata, m2 \in ComparedMetadata}

\* getComparisonSummary(compareScanRecords(baseline, current))
Summarize ==
    /\ CanAsk
    /\ \E pair \in ComparedPairs :
         EngineStep(EngineCall("getComparisonSummary", pair[1], pair[2],
            GetComparisonSummary(CompareScanRecords(pair[1], pair[2], clock))))

\* getMostSignificantChange(compareScanRecords(baseline, current))
MostSignificantChange ==
    /\ CanAsk
    /\ \E pair \in ComparedPairs :
         EngineStep(EngineCall("getMostSignificantChange", pair[1], pair[2],
            GetMostSignificantChange(CompareScanRecords(pair[1], pair[2], clock))))

\* compareQualityScores(baseline, current)
CompareScores ==
    /\ CanAsk
    /\ \E pair \in ComparedPairs :
         EngineStep(EngineCall("compareQualityScores", pair[1], pair[2],
                               CompareQualityScores(pair[1], pair[2])))

NextCompare ==
    \/ Compare
    \/ QualityScore
    \/ Validate
    \/ Summarize
    \/ MostSignificantChange
    \/ CompareScores

SpecCompare == InitCompare /\ [][NextCompare]_vars

\* Report texts of up to MaxPieces pieces.
MaxPieces == 3

ReportPieces ==
    {TotalLine(1, 15), TotalLine(3, 0), TotalLine(4, 3),
     SevLine("critical", 1, 2), SevLine("serious", 4, 3),
     SevLine("moderate", 3, 1), SevLine("minor", 2, 0),
     SectionHeading("critical"), IssueEntry, OtherHeading, TextLine,
     PagesLine(1, 3), PagesLine(2, 0), WcagLine(1, "AA")}

ReportTexts == UNION {[1..n -> ReportPieces] : n \in 0..MaxPieces}

\* parseReportMetadata as a function of its arguments: a caller holds a
\* report and a mode, and calls it once.
InitParse ==
    /\ stored = AbsentItem
    /\ clock = InitialClock
    /\ nextId = MAX_SCANS + 1
    /\ opCount = 0
    /\ lastCall = NoCall
    /\ engine = NoEngineCall
    /\ multiScan = NoScan
    /\ callers = NoCallers
    /\ home = NoHome
    /\ parser \in {ParseCall(lines, mode, FALSE, NoParse.metadata) :
                     lines \in ReportTexts, mode \in {"single", "exploration"}}

Parse ==
    /\ ~parser.returned
    /\ parser' = ParseCall(parser.lines, parser.mode, TRUE,
                           ParseReportText(parser.lines, parser.mode))
    /\ UNCHANGED <<stored, clock, nextId, opCount, lastCall, engine, multiScan, callers, home>>

SpecParse == InitParse /\ [][Parse]_vars

\* The discovery agent lists up to MaxDiscovered urls.
MaxDiscovered == 5

DiscoveredLists ==
    UNION {{[i \in 1..n |-> i], [i \in 1..n |-> n + 1 - i]} : n \in 0..MaxDiscovered}

DiscoveryOutputs ==
    {DiscoveryOutput(fenced, prose, json, FALSE, FALSE, <<>>) :
        fenced \in BOOLEAN, prose \in BOOLEAN, json \in {"malformed", "null"}}
    \cup {DiscoveryOutput(fenced, prose, "object", hasMain, hasUrls,
                          IF hasUrls THEN urls ELSE <<>>) :
             fenced \in BOOLEAN, prose \in BOOLEAN, hasMain \in BOOLEAN,
             hasUrls \in BOOLEAN, urls \in DiscoveredLists}

ScanDatas == {ScanData(TRUE, 3, 1), ScanData(TRUE, 0, 2), ScanData(FALSE, 0, 2),
              ScanData(FALSE, 0, 0)}

\* runMultiAgentScan(mainUrl) has been called and awaits the discovery agent.
InitScan ==
    /\ stored = AbsentItem
    /\ clock = InitialClock
    /\ nextId = MAX_SCANS + 1
    /\ opCount = 0
    /\ lastCall = NoCall
    /\ engine = NoEngineCall
    /\ parser = NoParse
    /\ multiScan = MultiAgentScan("discovering", NoOutput, NoDiscovery, <<>>, 0, 0)
    /\ callers = NoCallers
    /\ home = NoHome

ScanStep(next) ==
    /\ multiScan' = next
    /\ UNCHANGED <<stored, clock, nextId, opCount, lastCall, engine, parser, callers, home>>

\* The batch has no page left: runSummarizerAgent is called.
AfterPages(output, discovery, pages) ==
    IF \A i \in 1..Len(pages) : pages[i].status = "done"
    THEN MultiAgentScan("summarizing", output, discovery, pages, 1, 0)
    ELSE MultiAgentScan("scanning", output, discovery, StartNext(pages), 0, 0)

\* The discovery agent returns: its output is parsed, the urls to scan are
\* taken, and pMap is called on them.
DiscoveryReturns ==
    /\ multiScan.phase = "discovering"
    /\ \E output \in DiscoveryOutputs :
         \E discovery \in {ParseDiscoveryResult(output)} :
           IF discovery.threw
           THEN ScanStep(MultiAgentScan("failed", output, discovery, <<>>, 0, 0))
           ELSE \E urls \in {UrlsToScan(discovery.discoveredUrls)} :
                  ScanStep(AfterPages(output, discovery,
                             [i \in 1..Len(urls) |-> PageScan(urls[i], "waiting", 0)]))

\* The discovery agent throws or runs into its timeout.
DiscoveryFails ==
    /\ multiScan.phase = "discovering"
    /\ ScanStep(MultiAgentScan("failed", NoOutput, NoDiscovery, <<>>, 0, 0))

\* A page scanner agent returns its report; pMap goes on with the next url.
PageScanReturns ==
    /\ multiScan.phase = "scanning"
    /\ \E i \in InStatus(multiScan.pages, "running"), scanData \in ScanDatas :
         ScanStep(AfterPages(multiScan.output, multiScan.discovery,
                    [multiScan.pages EXCEPT ![i] =
                       PageScan(multiScan.pages[i].pageUrl, "done",
                                ExtractViolationCount(scanData))]))

\* A batch that leaves a failed page out and goes on.
PageScanFailsIgnored ==
    /\ multiScan.phase = "scanning"
    /\ \E i \in InStatus(multiScan.pages, "running") :
         \E pages \in {StartNext([multiScan.pages EXCEPT ![i].status = "failed"])} :
           ScanStep(IF InStatus(pages, "running") = {}
                    THEN MultiAgentScan("summarizing", multiScan.output,
                                        multiScan.discovery, pages, 1, 0)
                    ELSE MultiAgentScan("scanning", multiScan.output,
                                        multiScan.discovery, pages, 0, 0))

\* A page scanner agent throws or runs into its timeout: pMap rejects.
PageScanFails ==
    /\ multiScan.phase = "scanning"
    /\ \E i \in InStatus(multiScan.pages, "running") :
         ScanStep(MultiAgentScan("failed", multiScan.output, multiScan.discovery,
                    [multiScan.pages EXCEPT ![i].status = "failed"], 0, 0))

\* The summarizer returns the final report, and the result is returned.
SummarizerReturns ==
    /\ multiScan.phase = "summarizing"
    /\ ScanStep(MultiAgentScan("done", multiScan.output, multiScan.discovery, multiScan.pages,
                               multiScan.summarizerCalls, TotalOfPages(multiScan.pages)))

\* The summarizer throws or runs into its timeout.
SummarizerFails ==
    /\ multiScan.phase = "summarizing"
    /\ ScanStep(MultiAgentScan("failed", multiScan.output, multiScan.discovery, multiScan.pages,
                               multiScan.summarizerCalls, 0))

\* What POST /api/scan answers for an exploration scan: the report with
\* status success when runMultiAgentScan returned, the error with status 500
\* when it threw; nothing while it runs.
ScanResponse(call) ==
    CASE call.phase = "done" ->
           [answered |-> TRUE, httpStatus |-> 200, status |-> "success",
            hasReport |-> TRUE, error |-> ""]
      [] call.phase = "failed" ->
           [answered |-> TRUE, httpStatus |-> 500, status |-> "",
            hasReport |-> FALSE, error |-> "Failed to perform accessibility scan"]
      [] OTHER ->
           [answered |-> FALSE, httpStatus |-> 0, status |-> "",
            hasReport |-> FALSE, error |-> ""]

NextScan ==
    \/ DiscoveryReturns
    \/ DiscoveryFails
    \/ PageScanReturns
    \/ PageScanFails
    \/ SummarizerReturns
    \/ SummarizerFails

SpecScan == InitScan /\ [][NextScan]_vars

\* Two pages share the item; each calls add once.
InitTwoCallers ==
    /\ stored \in {AbsentItem, JsonStringify(AddedHistory(1), 0)}
    /\ clock = InitialClock
    /\ nextId = MAX_SCANS + 1
    /\ opCount = 0
    /\ lastCall = NoCall
    /\ engine = NoEngineCall
    /\ parser = NoParse
    /\ multiScan = NoScan
    /\ callers = NoCallers
    /\ home = NoHome

\* An add that reads the item again right before it writes.
ReloadedHistory(caller, item, now) ==
    [caller.history EXCEPT
       !.scans = Prepend(caller.scan, LoadHistory(item, OkEnv, now).scans)]

\* The history object add holds from loadHistory() to saveHistory().
HeldHistory(caller, item, now) == caller.history

\* add() up to the return of loadHistory's getItem: the history is loaded
\* and the new record is put in front.
BeginAdd(c) ==
    /\ callers[c].pc = "idle"
    /\ \E env \in LoadEnvs, in \in ScanInputs :
         \E now \in {clock + 1} :
         \E history \in {LoadHistory(stored, env, now)} :
         \E created \in {ScanRecord(nextId, in.url, in.mode, now, in.report,
                                    ParseReportMetadata(in.report, in.mode), in.label,
                                    in.discoveredUrls)} :
           /\ callers' = [callers EXCEPT ![c] =
                 AddCall("loaded", created,
                         [history EXCEPT !.scans = Prepend(created, history.scans),
                                         !.lastModified = now],
                         LoadFailed(env), opCount + 1, 0, FALSE, "")]
           /\ clock' = now
    /\ nextId' = nextId + 1
    /\ opCount' = opCount + 1
    /\ UNCHANGED <<stored, lastCall, engine, parser, multiScan, home>>

\* The rest of add(): saveHistory of the history the call holds.
FinishAdd(c) ==
    /\ callers[c].pc = "loaded"
    /\ \E env \in SaveEnvs :
         \E save \in {SaveHistory(HeldHistory(callers[c], stored, clock), stored, env,
                                  clock)} :
           /\ stored' = save.stored
           /\ callers' = [callers EXCEPT ![c] =
                 AddCall("done", callers[c].scan, callers[c].history,
                         callers[c].loadFailed, callers[c].loadStep, opCount + 1,
                         save.result.success, save.result.warning)]
    /\ opCount' = opCount + 1
    /\ UNCHANGED <<clock, nextId, lastCall, engine, parser, multiScan, home>>

NextTwoCallers == \E c \in Callers : BeginAdd(c) \/ FinishAdd(c)

SpecTwoCallers == InitTwoCallers /\ [][NextTwoCallers]_vars

\* The page: the user submits the form, POST /api/scan answers, and
\* handleScan takes the answer.
InitPage ==
    /\ stored \in InitialItems
    /\ clock = InitialClock
    /\ nextId = MAX_SCANS + 1
    /\ opCount = 0
    /\ lastCall = NoCall
    /\ engine = NoEngineCall
    /\ parser = NoParse
    /\ multiScan = NoScan
    /\ callers = NoCallers
    /\ home = NoHome

\* A text URL.canParse rejects; the urls of the model are host, "/", path.
NotAUrl == <<"p">>
IsValidUrl(url) == \E i \in DOMAIN url : url[i] = "/"

\* metadata.discoveredUrls of an exploration answer is the number of the
\* discovered urls, which the page hands to add in the place of the list;
\* written here as the number's text.
DiscoveredCount == <<<<"3">>>>

\* POST /api/scan: 400 for a url that does not parse, 500 when the agent
\* (or runMultiAgentScan) threw, else status success with the report.
Post(url, mode, outcome, report) ==
    IF ~IsValidUrl(url)
    THEN HttpResponse(FALSE, FALSE, "", "", "Invalid URL provided", UndefinedList)
    ELSE IF outcome = "threw"
    THEN HttpResponse(FALSE, FALSE, "", "", "Failed to perform accessibility scan",
                      UndefinedList)
    ELSE HttpResponse(FALSE, TRUE, "success", report, "",
                      IF mode = "exploration" THEN DiscoveredCount ELSE UndefinedList)

\* What the fetch of a request can come back with: an answer of the route,
\* or a rejection when the request did not get through.
Responses(request) ==
    {Post(request.url, request.mode, outcome, report) :
        outcome \in {"returned", "threw"}, report \in {SmallReport, HugeReport}}
    \cup {HttpResponse(TRUE, FALSE, "", "", "Failed to fetch", UndefinedList)}

\* handleScan up to the await of fetch (page.tsx:41-59).
HandleScan ==
    /\ CanCall
    /\ home.pageState = "form"
    /\ \E url \in {UrlA, NotAUrl}, mode \in {"single", "exploration"} :
         home' = [home EXCEPT !.pageState = "progress", !.error = "",
                              !.request = ScanRequest(TRUE, url, mode)]
    /\ opCount' = opCount + 1
    /\ UNCHANGED <<stored, clock, nextId, lastCall, engine, parser, multiScan, callers>>

\* The notification handleScan sets after add (page.tsx:81-103).
SaveNotification(result) ==
    IF result.success
    THEN IF result.warning # "" THEN Notification("warning", result.warning)
         ELSE home.notification
    ELSE Notification("error", IF result.error # "" THEN result.error ELSE "Unknown error")

\* A failed scan whose error text is shown as the results and saved.
ScanFailsSavingError ==
    /\ home.request.pending /\ home.pageState = "progress"
    /\ \E response \in Responses(home.request) :
         /\ ~(response.ok /\ response.status = "success")
         /\ \E now \in {clock + 1} :
            \E history \in {LoadHistory(stored, OkEnv, now)} :
            \E created \in {ScanRecord(nextId, home.request.url, home.request.mode, now,
                                       SmallReport,
                                       ParseReportMetadata(SmallReport, home.request.mode),
                                       Undefined, UndefinedList)} :
            \E save \in {SaveHistory([history EXCEPT
                                        !.scans = Prepend(created, history.scans),
                                        !.lastModified = now], stored, OkEnv, now)} :
              /\ stored' = save.stored
              /\ lastCall' = Call("add", nextId, SmallReport, OkEnv, save.result,
                                  <<created>>, AbsentItem, NoQuota, save)
              /\ home' = [home EXCEPT !.pageState = "results", !.results = response.error,
                                      !.request.pending = FALSE,
                                      !.response = response, !.adds = @ + 1]
              /\ clock' = now
              /\ nextId' = nextId + 1
    /\ UNCHANGED <<opCount, engine, parser, multiScan, callers>>

\* handleScan after the await when the scan failed: the fetch rejected or
\* the answer is not ok (page.tsx:61-64, 110-115), or it is ok without
\* status success (108-109).
ScanFails ==
    /\ home.request.pending /\ home.pageState = "progress"
    /\ \E response \in Responses(home.request) :
         /\ ~(response.ok /\ response.status = "success")
         /\ home' = [home EXCEPT
                       !.pageState = "form",
                       !.error = IF response.rejected \/ ~response.ok
                                 THEN IF response.error # "" THEN response.error
                                      ELSE "Failed to scan website"
                                 ELSE response.error,
                       !.request.pending = FALSE,
                       !.response = response]
    /\ UNCHANGED <<stored, clock, nextId, opCount, lastCall, engine, parser, multiScan,
                   callers>>

\* handleScan after the await when the answer has status success
\* (page.tsx:66-106): the results are set and add is called once.
ScanSucceeds ==
    /\ home.request.pending /\ home.pageState = "progress"
    /\ \E response \in Responses(home.request), env \in LoadSaveEnvs :
         /\ response.ok /\ response.status = "success"
         /\ \E now \in {clock + 1} :
            \E history \in {LoadHistory(stored, env, now)} :
            \E created \in {ScanRecord(nextId, home.request.url, home.request.mode, now,
                                       response.data,
                                       ParseReportMetadata(response.data, home.request.mode),
                                       Undefined, response.discoveredUrls)} :
            \E save \in {SaveHistory([history EXCEPT
                                        !.scans = Prepend(created, history.scans),
                                        !.lastModified = now], stored, env, now)} :
              /\ stored' = save.stored
              /\ lastCall' = Call("add", nextId, response.data, env, save.result,
                                  IF save.result.success THEN <<created>> ELSE <<>>,
                                  AbsentItem, NoQuota, save)
              /\ home' = [home EXCEPT
                            !.pageState = "results",
                            !.results = response.data,
                            !.currentScanId = IF save.result.success THEN nextId ELSE @,
                            !.notification = SaveNotification(save.result),
                            !.request.pending = FALSE,
                            !.response = response,
                            !.adds = @ + 1]
              /\ clock' = now
              /\ nextId' = nextId + 1
    /\ UNCHANGED <<opCount, engine, parser, multiScan, callers>>

\* handleNewScan (page.tsx:118-128), the button of the results.
HandleNewScan ==
    /\ home.pageState = "results"
    /\ home' = [home EXCEPT !.pageState = "form", !.results = "", !.error = "",
                            !.currentScanId = 0]
    /\ UNCHANGED <<stored, clock, nextId, opCount, lastCall, engine, parser, multiScan,
                   callers>>

\* The notification goes away: its timer fires or the user dismisses it.
DismissNotification ==
    /\ home.notification # NoNotification
    /\ home' = [home EXCEPT !.notification = NoNotification]
    /\ UNCHANGED <<stored, clock, nextId, opCount, lastCall, engine, parser, multiScan,
                   callers>>

NextPage ==
    \/ HandleScan
    \/ ScanFails
    \/ ScanSucceeds
    \/ HandleNewScan
    \/ DismissNotification

SpecPage == InitPage /\ [][NextPage]_vars

-----------------------------------------------------------------------------
(* Properties of the store.  `stored` in a step is the item before the call *)
(* and `stored'` the item after it; lastCall' is the call's result.        *)

MutatingOps == {"add", "delete", "updateLabel", "clear", "importFromJson"}

\* The two warnings saveHistory returns with a pruned history.
PruneWarnings ==
    {"Storage was near capacity. Oldest scans were removed.",
     "Storage quota exceeded. Removed 50% of oldest scans."}

\* The ids of the records under STORAGE_KEY.
StoredIds == {StoredScans[i].id : i \in DOMAIN StoredScans}

\* C1: after any successful mutating operation the persisted history holds
\* at most MAX_SCANS records.
C1_AtMostMaxScans ==
    (lastCall.op \in MutatingOps /\ lastCall.success) => Len(StoredScans) <= MAX_SCANS

C3_OverLimitAfterPruning ==
    [][(/\ lastCall'.op \in MutatingOps
        /\ lastCall'.size > STORAGE_LIMIT_BYTES
        /\ lastCall'.prunedSize > STORAGE_LIMIT_BYTES)
       => (/\ ~lastCall'.success
           /\ lastCall'.error # ""
           /\ stored' = stored)]_vars

\* add() of a huge report to two big records: the newest record alone is
\* still over the limit.
C3_Witness ==
    /\ lastCall.op = "add"
    /\ lastCall.input = HugeReport
    /\ lastCall.prunedSize > STORAGE_LIMIT_BYTES
    /\ ~lastCall.success
    /\ stored = JsonStringify(TwoBigHistory, 0)

\* The same through importFromJson.
C3_WitnessImport ==
    /\ lastCall.op = "importFromJson"
    /\ lastCall.input = "twoHuge"
    /\ lastCall.prunedSize > STORAGE_LIMIT_BYTES
    /\ ~lastCall.success

\* C4: for an id that is not in the history, getById, delete and
\* updateLabel return a failure with an error and leave the item unchanged.
C4_NotFound ==
    [][(/\ lastCall'.op \in {"getById", "delete", "updateLabel"}
        /\ lastCall'.id \notin StoredIds)
       => (/\ ~lastCall'.success
           /\ lastCall'.error # ""
           /\ stored' = stored)]_vars

\* delete() of a missing id on a history of three records.
C4_Witness ==
    /\ lastCall.op = "delete"
    /\ lastCall.id \notin StoredIds
    /\ ~lastCall.success
    /\ Len(StoredScans) = 3

\* The payloads importFromJson turns down: malformed JSON, a value that is
\* not an object, an object whose scans is not an array.
RejectedPayloads == {"malformed", "null", "primitive", "noScansArray"}

\* C5: importFromJson fails on these payloads, and whenever it fails the
\* item under STORAGE_KEY is what it was.
C5_ImportFailureKeepsHistory ==
    [][(lastCall'.op = "importFromJson")
       => (/\ lastCall'.input \in RejectedPayloads => ~lastCall'.success
           /\ ~lastCall'.success => stored' = stored)]_vars

\* A failed import over a history of three records.
C5_Witness ==
    /\ lastCall.op = "importFromJson"
    /\ lastCall.input = "noScansArray"
    /\ ~lastCall.success
    /\ Len(StoredScans) = 3

\* A payload that is not an object with an array-valued scans.
LacksScansArray(text) == text.kind # "object" \/ ~text.scansIsArray

\* C6 as stated: importFromJson rejects every payload that lacks a version
\* field or an array-valued scans field.
C6_RejectsWithoutVersionOrScans ==
    (/\ lastCall.op = "importFromJson"
     /\ lastCall.input \in PayloadNames
     /\ (LacksScansArray(Payload(lastCall.input)) \/ ~Payload(lastCall.input).hasVersion))
    => ~lastCall.success

\* C6: importFromJson rejects every payload that is not an object with an
\* array-valued scans field; a payload with an array-valued scans and no
\* version field is not turned down as invalid: the import succeeds when
\* the write goes through, and stores its scans (all of them unless it
\* warns of pruning) with version SCHEMA_VERSION.
C6_RejectsWithoutScansArray ==
    [][(lastCall'.op = "importFromJson" /\ lastCall'.input \in PayloadNames)
       => (/\ LacksScansArray(Payload(lastCall'.input)) => ~lastCall'.success
           /\ lastCall'.input = "noVersion"
                => /\ lastCall'.error # "Invalid import data structure"
                   /\ lastCall'.success <=> lastCall'.written
           /\ (lastCall'.input = "noVersion" /\ lastCall'.success)
                => (/\ stored'.hasVersion /\ stored'.version = SCHEMA_VERSION
                    /\ lastCall'.warning \notin PruneWarnings
                         => StoredScans' = Payload("noVersion").scans))]_vars

\* An accepted payload without a version field.
C6_Witness ==
    /\ lastCall.op = "importFromJson"
    /\ lastCall.input = "noVersion"
    /\ lastCall.success
    /\ stored.version = SCHEMA_VERSION
    /\ StoredScans = Payload("noVersion").scans

\* What getAll() lists on a working medium.
ListedScans(item, now) == LoadHistory(item, OkEnv, now).scans

\* The records of the history an exported text holds.
ExportedScans(text) == JsonParse(text).value.scans

\* The step that imports the text the preceding exportAsJson returned, and
\* succeeds.
ImportsExported ==
    /\ lastCall.op = "exportAsJson"
    /\ lastCall'.op = "importFromJson"
    /\ lastCall'.input = "exported"
    /\ lastCall'.success

\* C7 as stated: a successful import of the exported text leaves a history
\* that lists the records of the exported history, in their order.
C7_RoundTripAnySuccess ==
    [][ImportsExported
       => ListedScans(stored', clock') = ExportedScans(lastCall.text)]_vars

\* C7: a successful import of the exported text that returns no pruning
\* warning leaves a history that lists the records of the exported history
\* with the same ids and field values, in the same order.
C7_RoundTripWithoutPruning ==
    [][(ImportsExported /\ lastCall'.warning \notin PruneWarnings)
       => ListedScans(stored', clock') = ExportedScans(lastCall.text)]_vars

\* The exported full history imported back.
C7_Witness ==
    /\ lastCall.op = "importFromJson"
    /\ lastCall.input = "exported"
    /\ lastCall.success
    /\ lastCall.warning \notin PruneWarnings
    /\ Len(StoredScans) = MAX_SCANS

\* C8: while the medium is unavailable getAll, getByUrl and filter return
\* success with no records and exportAsJson the empty history; add,
\* delete, clear, updateLabel and importFromJson return failure; nothing
\* is written under STORAGE_KEY.
C8_Unavailable ==
    [][lastCall'.unavailable
       => (/\ stored' = stored
           /\ ~lastCall'.written /\ lastCall'.attempts = 0
           /\ lastCall'.op \in {"getAll", "getByUrl", "filter"}
                => (lastCall'.success /\ lastCall'.data = <<>>)
           /\ lastCall'.op = "exportAsJson"
                => (/\ lastCall'.success
                    /\ lastCall'.text.kind = "object"
                    /\ lastCall'.text.scansIsArray
                    /\ lastCall'.text.scans = <<>>)
           /\ lastCall'.op \in MutatingOps
                => (~lastCall'.success /\ lastCall'.error # ""))]_vars

\* add() on an unavailable medium over a history of three records.
C8_Witness ==
    /\ lastCall.op = "add"
    /\ lastCall.unavailable
    /\ ~lastCall.success
    /\ Len(StoredScans) = 3

\* C9: whatever the medium does, an operation ends with a result; a call
\* of a mutating operation whose write did not happen leaves the item as
\* it was and returns a failure with an error string.
C9_NoWriteIsFailure ==
    [][/\ lastCall'.op # "none"
       /\ lastCall'.success \in BOOLEAN
       /\ lastCall'.success => lastCall'.error = ""
       /\ ~lastCall'.written => stored' = stored
       /\ (lastCall'.op \in MutatingOps /\ ~lastCall'.written)
            => (~lastCall'.success /\ lastCall'.error # "")]_vars

\* add() whose setItem threw an error other than a quota error.
C9_Witness ==
    /\ lastCall.op = "add"
    /\ lastCall.error = "setItem failed"
    /\ lastCall.attempts = 1
    /\ ~lastCall.written
    /\ ~lastCall.success

\* Timestamps never increase along the list.
MostRecentFirst(scans) ==
    \A i, j \in DOMAIN scans : i < j => scans[i].timestamp >= scans[j].timestamp

\* C10: after any successful write the persisted scans are ordered most
\* recent first.
C10_MostRecentFirst ==
    (lastCall.op \in MutatingOps /\ lastCall.success /\ lastCall.written)
    => MostRecentFirst(StoredScans)

\* C11: in every reachable history the ids of the records are pairwise
\* distinct.
C11_DistinctIds ==
    \A i, j \in DOMAIN StoredScans :
        i # j => StoredScans[i].id # StoredScans[j].id

\* The save of the call pruned the history to its more recent half.
SavePruned(call) == call.written /\ call.saveWarning \in PruneWarnings

\* The ids of the records the MAX_SCANS limit of add() cuts off: the new
\* record comes first, so the records from position MAX_SCANS on go.
TrimmedIds == {StoredScans[i].id : i \in MAX_SCANS..Len(StoredScans)}

\* The ways the claim names for an id to enter and to leave the item.
EntersByAdd(id, call) == call.op = "add" /\ call.id = id
LeavesAsClaimed(id, call) ==
    \/ call.op = "delete" /\ call.id = id
    \/ call.op = "clear"
    \/ call.op = "add" /\ id \in TrimmedIds
    \/ SavePruned(call)

\* C12 as written: an id enters the persisted history only through add,
\* and leaves it only through delete of that id, clear, the MAX_SCANS trim
\* or pruning.
C12_OnlyAddCreates ==
    [][/\ \A id \in StoredIds' \ StoredIds : EntersByAdd(id, lastCall')
       /\ \A id \in StoredIds \ StoredIds' : LeavesAsClaimed(id, lastCall')]_vars

\* C12: an id enters the persisted history only through add or through an
\* importFromJson, which replaces the whole list; it leaves only through
\* delete of that id, clear, the MAX_SCANS trim, pruning, an importFromJson,
\* or an add whose load failed and which overwrites the item with the new
\* record alone.  The reads, updateLabel and every failed call leave the
\* set of ids as it is.
C12_AddAndImportCreate ==
    [][/\ \A id \in StoredIds' \ StoredIds :
            EntersByAdd(id, lastCall') \/ lastCall'.op = "importFromJson"
       /\ \A id \in StoredIds \ StoredIds' :
            \/ LeavesAsClaimed(id, lastCall')
            \/ lastCall'.op = "importFromJson"
            \/ lastCall'.op = "add" /\ lastCall'.loadFailed
       /\ (StoredIds' # StoredIds) => lastCall'.success]_vars

\* A delete took the first of three records out and left the other two.
C12_Witness ==
    /\ lastCall.op = "delete" /\ lastCall.success
    /\ lastCall.id = 3
    /\ StoredIds = {1, 2}

\* An import replaced the stored records by the payload's.
C12_WitnessImport ==
    /\ lastCall.op = "importFromJson" /\ lastCall.success
    /\ lastCall.input = "unsorted"
    /\ StoredIds = {1001, 1002, 1003}

\* A stored record with its label left out of the comparison.
WithoutLabel(j) == [j EXCEPT !.hasLabel = FALSE, !.label = <<>>]

\* The stored list differs from the previous one in the label of the
\* record at the index only.
OnlyLabelChanged(index) ==
    /\ Len(StoredScans') = Len(StoredScans)
    /\ \A i \in DOMAIN StoredScans :
          IF i = index
          THEN WithoutLabel(StoredScans'[i]) = WithoutLabel(StoredScans[i])
          ELSE StoredScans'[i] = StoredScans[i]

\* C13 as written: every successful updateLabel(id, label) changes only the
\* label of the record with the id; the other records, the order and the
\* number of records stay.
C13_OnlyLabelChanges ==
    [][(lastCall'.op = "updateLabel" /\ lastCall'.success)
       => OnlyLabelChanged(FindIndex(StoredScans, lastCall'.id))]_vars

\* C13: a successful updateLabel(id, label) whose save did not prune changes
\* only the label of the first record with the id, which becomes the
\* sanitized label, or none for the empty string.  When the save pruned,
\* the call still succeeds, without a warning, and each record that is left
\* is one of the previous records, changed in the label at most.
C13_OnlyLabelChangesUnlessPruned ==
    [][(lastCall'.op = "updateLabel" /\ lastCall'.success)
       => /\ lastCall'.warning = ""
          /\ IF SavePruned(lastCall')
             THEN \A i \in DOMAIN StoredScans' :
                     \E k \in DOMAIN StoredScans :
                        /\ WithoutLabel(StoredScans'[i]) = WithoutLabel(StoredScans[k])
                        /\ StoredScans[k].id # lastCall'.id
                              => StoredScans'[i] = StoredScans[k]
             ELSE /\ OnlyLabelChanged(FindIndex(StoredScans, lastCall'.id))
                  /\ \E r \in {StoredScans'[FindIndex(StoredScans, lastCall'.id)]} :
                        /\ r.hasLabel = (lastCall'.input # <<>>)
                        /\ r.label = SanitizeLabel(lastCall'.input)
                        /\ lastCall'.data = <<ParseRecord(r)>>]_vars

\* The label " ok " was given to the first of three records and is stored
\* as "ok"; the other two records are there.
C13_Witness ==
    /\ lastCall.op = "updateLabel" /\ lastCall.success
    /\ lastCall.input = <<" ", "o", "k", " ">>
    /\ Len(StoredScans) = 3
    /\ lastCall.id = 3
    /\ StoredScans[1].label = <<"o", "k">>
    /\ StoredIds = {1, 2, 3}

\* C14: after a successful add or updateLabel each stored record's label is
\* absent or a trimmed string of at most LABEL_MAX_LENGTH characters, and
\* updateLabel with the empty string leaves the record without a label.
C14_LabelsSanitized ==
    (lastCall.op \in {"add", "updateLabel"} /\ lastCall.success)
    => /\ \A i \in DOMAIN StoredScans :
             StoredScans[i].hasLabel
             => /\ StoredScans[i].label = Trim(StoredScans[i].label)
                /\ Len(StoredScans[i].label) <= LABEL_MAX_LENGTH
       /\ (lastCall.op = "updateLabel" /\ lastCall.input = <<>>)
             => lastCall.data[1].label = Undefined

\* The item under STORAGE_KEY is not JSON, or JSON without an array scans.
CorruptItem(item) ==
    item.kind # "absent" /\ ~(item.kind = "object" /\ item.scansIsArray)

\* C15: with a corrupt item under STORAGE_KEY every read succeeds and
\* reports an empty history, and a successful add leaves a history that
\* holds exactly the new record.
C15_CorruptTreatedAsEmpty ==
    [][CorruptItem(stored)
       => /\ lastCall'.op \in {"getAll", "getByUrl", "filter"}
                => lastCall'.success /\ lastCall'.data = <<>>
          /\ lastCall'.op = "getQuota"
                => lastCall'.success /\ lastCall'.quota.scanCount = 0
          /\ lastCall'.op = "exportAsJson"
                => /\ lastCall'.success
                   /\ lastCall'.text.kind = "object"
                   /\ lastCall'.text.scans = <<>>
          /\ (lastCall'.op = "add" /\ lastCall'.success)
                => /\ Len(lastCall'.data) = 1
                   /\ StoredScans' = <<StringifyRecord(lastCall'.data[1])>>]_vars

-----------------------------------------------------------------------------
(* Properties of the comparison engine.  `engine` holds the call the view  *)
(* made: its two records and what the engine returned.                    *)

SeverityNames == {"critical", "serious", "moderate", "minor"}

\* The three differences of a baseline count b and a current count c, by
\* cases on which of the two is larger.
DifferencesOf(entry, b, c) ==
    IF b >= c
    THEN entry.fixed = b - c /\ entry.new = 0 /\ entry.unchanged = c
    ELSE entry.fixed = 0 /\ entry.new = c - b /\ entry.unchanged = b

\* C16: compareScanRecords(baseline, current) returns, for the totals and
\* for each severity, fixed = max(0, b - c), new = max(0, c - b) and
\* unchanged = min(b, c) of the baseline count b and the current count c.
C16_CompareArithmetic ==
    engine.op = "compareScanRecords"
    => /\ engine.result.overall.baselineTotal = engine.scan1.metadata.totalViolations
       /\ engine.result.overall.currentTotal = engine.scan2.metadata.totalViolations
       /\ DifferencesOf(engine.result.overall,
                        engine.scan1.metadata.totalViolations,
                        engine.scan2.metadata.totalViolations)
       /\ \A severity \in SeverityNames :
             /\ engine.result.bySeverity[severity].baselineCount
                   = engine.scan1.metadata[severity]
             /\ engine.result.bySeverity[severity].currentCount
                   = engine.scan2.metadata[severity]
             /\ DifferencesOf(engine.result.bySeverity[severity],
                              engine.scan1.metadata[severity],
                              engine.scan2.metadata[severity])

\* 20 violations against 9: 11 fixed, none new, 9 unchanged; 7 of the 10
\* serious ones are fixed.
C16_Witness ==
    /\ engine.op = "compareScanRecords"
    /\ engine.scan1.metadata = CountedMetadata(<<5, 10, 3, 2>>, 0)
    /\ engine.scan2.metadata = CountedMetadata(<<2, 3, 2, 2>>, 0)
    /\ engine.result.overall.fixed = 11
    /\ engine.result.overall.unchanged = 9
    /\ engine.result.bySeverity["serious"].fixed = 7

\* C17: with the arguments swapped, fixed and new change places and
\* unchanged stays, for the totals and for each severity.
C17_SwapSymmetry ==
    engine.op = "compareScanRecords"
    => \E swapped \in {CompareScanRecords(engine.scan2, engine.scan1, clock)} :
          /\ engine.result.overall.new = swapped.overall.fixed
          /\ engine.result.overall.fixed = swapped.overall.new
          /\ engine.result.overall.unchanged = swapped.overall.unchanged
          /\ \A severity \in SeverityNames :
                /\ engine.result.bySeverity[severity].new
                      = swapped.bySeverity[severity].fixed
                /\ engine.result.bySeverity[severity].fixed
                      = swapped.bySeverity[severity].new
                /\ engine.result.bySeverity[severity].unchanged
                      = swapped.bySeverity[severity].unchanged

\* 7 violations against 9: 2 new ones, which the swapped comparison counts
\* as fixed; the moderate ones went down by one while the others went up.
C17_Witness ==
    /\ engine.op = "compareScanRecords"
    /\ engine.scan1.metadata = CountedMetadata(<<1, 2, 3, 1>>, 0)
    /\ engine.scan2.metadata = CountedMetadata(<<2, 3, 2, 2>>, 0)
    /\ engine.result.overall.new = 2
    /\ engine.result.bySeverity["moderate"].fixed = 1
    /\ engine.result.bySeverity["critical"].new = 1

\* C18: overall.percentageChange is a tenth nearest to
\* (currentTotal - baselineTotal) / baselineTotal * 100 when baselineTotal
\* is positive, 100 when only currentTotal is positive, and 0 when both are
\* 0; 20 against 9 gives -55.0, 7 against 20 gives 185.7, and a positive
\* baseline against 0 gives -100.  The value is held in tenths.
C18_PercentageChange ==
    engine.op = "compareScanRecords"
    => \E b \in {engine.result.overall.baselineTotal} :
       \E c \in {engine.result.overall.currentTotal} :
       \E tenths \in {engine.result.overall.percentageChangeTenths} :
          /\ b > 0 => /\ 2 * (tenths * b - 1000 * (c - b)) <= b
                      /\ 2 * (1000 * (c - b) - tenths * b) <= b
          /\ (b = 0 /\ c > 0) => tenths = 1000
          /\ (b = 0 /\ c = 0) => tenths = 0
          /\ (b = 20 /\ c = 9) => tenths = -550
          /\ (b = 7 /\ c = 20) => tenths = 1857
          /\ (b > 0 /\ c = 0) => tenths = -1000

\* 7 violations against 20: 185.714...% is given as 185.7.
C18_Witness ==
    /\ engine.op = "compareScanRecords"
    /\ engine.result.overall.baselineTotal = 7
    /\ engine.result.overall.currentTotal = 20
    /\ engine.result.overall.percentageChangeTenths = 1857

\* C19: calculateQualityScore is max(0, 100 - (10 critical + 5 serious +
\* 2 moderate + minor)), lies in 0..100, is 100 exactly when all four
\* counts are 0, and does not go up when one count goes up by one.
C19_QualityScore ==
    engine.op = "calculateQualityScore"
    => \E m \in {engine.scan1.metadata} :
       \E deductions \in {10 * m.critical + 5 * m.serious + 2 * m.moderate + m.minor} :
          /\ engine.result = IF deductions >= 100 THEN 0 ELSE 100 - deductions
          /\ engine.result \in 0..100
          /\ engine.result = 100
                <=> (m.critical = 0 /\ m.serious = 0 /\ m.moderate = 0 /\ m.minor = 0)
          /\ \A severity \in SeverityNames :
                CalculateQualityScore(
                    [engine.scan1 EXCEPT !.metadata[severity] = @ + 1])
                  <= engine.result

\* Eleven critical violations deduct 110 points: the score is 0.
C19_Witness ==
    /\ engine.op = "calculateQualityScore"
    /\ engine.scan1.metadata = CountedMetadata(<<11, 0, 0, 0>>, 0)
    /\ engine.result = 0

\* C20: validateComparison is invalid whenever the two ids are equal, also
\* when url or mode differ; with different ids it is valid, with a warning
\* exactly when the urls or the modes differ.
C20_SameIdInvalid ==
    engine.op = "validateComparison"
    => IF engine.scan1.id = engine.scan2.id
       THEN ~engine.result.valid
       ELSE /\ engine.result.valid
            /\ engine.result.hasWarning
                  <=> (engine.scan1.url # engine.scan2.url
                       \/ engine.scan1.mode # engine.scan2.mode)

\* Some severity has fewer violations in the second record than in the
\* first, and some severity has more.
SomeFixed(m1, m2) == \E severity \in SeverityNames : m1[severity] > m2[severity]
SomeNew(m1, m2) == \E severity \in SeverityNames : m1[severity] < m2[severity]

\* C21: getComparisonSummary takes the first case that applies, in the
\* order: both totals 0; current total 0; baseline total 0; equal totals;
\* some severity fixed and some severity new, reported with the overall
\* fixed and new; otherwise the one of overall fixed and new that is not 0.
C21_SummaryOrder ==
    engine.op = "getComparisonSummary"
    => \E b \in {engine.scan1.metadata.totalViolations} :
       \E c \in {engine.scan2.metadata.totalViolations} :
          engine.result =
             IF b = 0 /\ c = 0 THEN Sentence("Both scans have no violations", 0, 0)
             ELSE IF c = 0 THEN Sentence("All N violations fixed!", b, 0)
             ELSE IF b = 0 THEN Sentence("N new violations detected", c, 0)
             ELSE IF b = c THEN Sentence("No change in violation count", 0, 0)
             ELSE IF /\ SomeFixed(engine.scan1.metadata, engine.scan2.metadata)
                     /\ SomeNew(engine.scan1.metadata, engine.scan2.metadata)
             THEN Sentence("N fixed, M new", Max(0, b - c), Max(0, c - b))
             ELSE IF b > c THEN Sentence("N violations fixed", b - c, 0)
             ELSE Sentence("N new violations", c - b, 0)

\* 7 violations against 9 with the moderate ones down and the others up:
\* "0 fixed, 2 new".
C21_Witness ==
    /\ engine.op = "getComparisonSummary"
    /\ engine.scan1.metadata = CountedMetadata(<<1, 2, 3, 1>>, 0)
    /\ engine.scan2.metadata = CountedMetadata(<<2, 3, 2, 2>>, 0)
    /\ engine.result = Sentence("N fixed, M new", 0, 2)

\* |currentCount - baselineCount| of the k-th severity of the call.
DeltaOf(k) ==
    Max(engine.scan2.metadata[SeverityOrder[k]] - engine.scan1.metadata[SeverityOrder[k]],
        engine.scan1.metadata[SeverityOrder[k]] - engine.scan2.metadata[SeverityOrder[k]])

\* C22: getMostSignificantChange returns the severity with the largest
\* |currentCount - baselineCount|, the first of them in the order critical,
\* serious, moderate, minor when several tie, and null when every
\* difference is 0.
C22_MostSignificantChange ==
    engine.op = "getMostSignificantChange"
    => IF \A k \in 1..4 : DeltaOf(k) = 0
       THEN engine.result = "null"
       ELSE \E k \in 1..4 :
               /\ engine.result = SeverityOrder[k]
               /\ \A j \in 1..4 : DeltaOf(j) <= DeltaOf(k)
               /\ \A j \in 1..(k - 1) : DeltaOf(j) < DeltaOf(k)

\* Serious and moderate both go up by one and the others stay: serious,
\* the first of the two, is returned.
C22_Witness ==
    /\ engine.op = "getMostSignificantChange"
    /\ engine.scan1.metadata = CountedMetadata(<<0, 0, 0, 0>>, 0)
    /\ engine.scan2.metadata = CountedMetadata(<<0, 1, 1, 0>>, 0)
    /\ engine.result = "serious"

\* The second record has fewer violations than the first in every severity.
FewerInEvery(m1, m2) == \A severity \in SeverityNames : m2[severity] < m1[severity]
DeductionsOf(m) == 10 * m.critical + 5 * m.serious + 2 * m.moderate + m.minor

\* C23 as written: compareQualityScores is positive whenever current has
\* fewer violations than baseline in every severity, and negative whenever
\* it has more in every severity.
C23_StrictSign ==
    engine.op = "compareQualityScores"
    => /\ FewerInEvery(engine.scan1.metadata, engine.scan2.metadata)
             => engine.result > 0
       /\ FewerInEvery(engine.scan2.metadata, engine.scan1.metadata)
             => engine.result < 0

\* C23: compareQualityScores is the score of current minus the score of
\* baseline.  When current has fewer violations than baseline in every
\* severity it is not negative, and it is positive exactly when the
\* deductions of current are below 100; when current has more in every
\* severity it is not positive, and it is negative exactly when the
\* deductions of baseline are below 100.  Two records whose scores are both
\* floored at 0 differ by 0.
C23_SignUnlessFloored ==
    engine.op = "compareQualityScores"
    => /\ engine.result = Max(0, 100 - DeductionsOf(engine.scan2.metadata))
                            - Max(0, 100 - DeductionsOf(engine.scan1.metadata))
       /\ FewerInEvery(engine.scan1.metadata, engine.scan2.metadata)
             => /\ engine.result >= 0
                /\ engine.result > 0 <=> DeductionsOf(engine.scan2.metadata) < 100
       /\ FewerInEvery(engine.scan2.metadata, engine.scan1.metadata)
             => /\ engine.result =< 0
                /\ engine.result < 0 <=> DeductionsOf(engine.scan1.metadata) < 100

\* One violation of each severity against none: the score goes up by 18.
C23_Witness ==
    /\ engine.op = "compareQualityScores"
    /\ engine.scan1.metadata = CountedMetadata(<<1, 1, 1, 1>>, 0)
    /\ engine.scan2.metadata = CountedMetadata(<<0, 0, 0, 0>>, 0)
    /\ engine.result = 18


---------------------------------------------------------------------------
(* Properties of parseReportMetadata.  `parser` holds the call: the text,  *)
(* the mode and the metadata returned.                                     *)

\* The numbers the text states as a total.
StatedTotals == {parser.lines[i].n : i \in {j \in 1..Len(parser.lines) : parser.lines[j].kind = "total"}}

\* The text carries a count of a severity or a severity's heading.
HasSeverityMarker ==
    \E i \in 1..Len(parser.lines) : parser.lines[i].kind \in {"sev", "heading"}

SumOfReturnedCounts ==
    parser.metadata.critical + parser.metadata.serious
        + parser.metadata.moderate + parser.metadata.minor

\* C24: the metadata returned for any report and mode has totalViolations
\* equal to the larger of the total the report states (0 when it states
\* none) and the sum of the four severity counts returned; a report that
\* states a total of 15 and has no severity markers gets totalViolations 15
\* and four counts of 0.
C24_TotalIsMax ==
    parser.returned =>
        /\ \E stated \in (IF StatedTotals = {} THEN {0} ELSE StatedTotals) :
              parser.metadata.totalViolations = Max(stated, SumOfReturnedCounts)
        /\ (StatedTotals = {15} /\ ~HasSeverityMarker) =>
              /\ parser.metadata.totalViolations = 15
              /\ SumOfReturnedCounts = 0

\* A report that states a total above its counts, and one that states a
\* total below them, have been parsed.
C24_Witness ==
    /\ parser.returned
    /\ StatedTotals = {3}
    /\ SumOfReturnedCounts = 5
    /\ parser.metadata.totalViolations = 5

C24_WitnessStated ==
    /\ parser.returned
    /\ StatedTotals = {15}
    /\ ~HasSeverityMarker
    /\ parser.metadata.totalViolations = 15

---------------------------------------------------------------------------
(* Properties of getQuota. *)

\* The records getQuota's load sees: those of the item, none when the
\* medium kept the load from reading it.
SeenScans(call) == IF call.loadFailed THEN <<>> ELSE StoredScans

\* C25: getQuota returns used = twice the length of the serialized history,
\* limit = 5 MiB, scanCount = the number of records, and a percentageUsed of
\* used / limit * 100 cut off at 100, which lies between 0 and 100.
C25_QuotaArithmetic ==
    [][lastCall'.op = "getQuota"
       => /\ lastCall'.quota.used
                = 2 * SerializedLength([scans |-> SeenScans(lastCall')])
          /\ lastCall'.quota.limit = 5 * 1024 * 1024
          /\ lastCall'.quota.scanCount = Len(SeenScans(lastCall'))
          /\ lastCall'.quota.percentTimesLimit
                = Min(lastCall'.quota.used * 100, 100 * lastCall'.quota.limit)
          /\ lastCall'.quota.percentTimesLimit >= 0
          /\ lastCall'.quota.percentTimesLimit <= 100 * lastCall'.quota.limit]_vars

\* getQuota on a history of two records that fills more than 80% of the limit.
C25_Witness ==
    /\ lastCall.op = "getQuota"
    /\ ~lastCall.loadFailed
    /\ lastCall.quota.scanCount = 2
    /\ lastCall.quota.used > WARNING_THRESHOLD
    /\ lastCall.quota.percentTimesLimit = lastCall.quota.used * 100

---------------------------------------------------------------------------
(* Properties of the multi-agent orchestrator.  `multiScan` holds the call.     *)

\* C26: an exploration scan runs page scanners on the first 4 discovered
\* urls in discovery order and on no other (on none when the list is
\* empty), and the totalViolations it returns is the sum of the violation
\* counts of exactly those scans.
C26_FirstFourScanned ==
    multiScan.phase \in {"scanning", "summarizing", "done"} =>
        /\ Len(multiScan.pages) <= 4
        /\ Len(multiScan.pages) = Min(4, Len(multiScan.discovery.discoveredUrls))
        /\ \A i \in 1..Len(multiScan.pages) :
              multiScan.pages[i].pageUrl = multiScan.discovery.discoveredUrls[i]
        /\ multiScan.phase = "done" =>
              /\ \A i \in 1..Len(multiScan.pages) : multiScan.pages[i].status = "done"
              /\ \E total \in [1..Len(multiScan.pages) -> 0..3] :
                    /\ \A i \in 1..Len(multiScan.pages) : total[i] = multiScan.pages[i].violations
                    /\ multiScan.totalViolations
                          = (IF Len(multiScan.pages) >= 1 THEN total[1] ELSE 0)
                            + (IF Len(multiScan.pages) >= 2 THEN total[2] ELSE 0)
                            + (IF Len(multiScan.pages) >= 3 THEN total[3] ELSE 0)
                            + (IF Len(multiScan.pages) >= 4 THEN total[4] ELSE 0)

\* A scan of five discovered urls, listed from 5 down, has returned with
\* the violations of urls 5, 4, 3 and 2.
C26_Witness ==
    /\ multiScan.phase = "done"
    /\ multiScan.discovery.discoveredUrls = <<5, 4, 3, 2, 1>>
    /\ [i \in 1..Len(multiScan.pages) |-> multiScan.pages[i].pageUrl] = <<5, 4, 3, 2>>
    /\ [i \in 1..Len(multiScan.pages) |-> multiScan.pages[i].violations] = <<3, 2, 0, 3>>
    /\ multiScan.totalViolations = 8

\* C27: when the discovery agent's output is not valid JSON,
\* parseDiscoveryResult does not fail and its result is the fallback (empty
\* mainPageUrl, mainPageHtml and discoveredUrls).
C27_InvalidJsonFallsBack ==
    multiScan.output.json = "malformed" =>
        /\ ~multiScan.discovery.threw
        /\ multiScan.discovery = FallbackResult

\* An object that lacks mainPageUrl or discoveredUrls gives the fallback.
C27_MissingFieldFallsBack ==
    (/\ JsonString(multiScan.output) = "object"
     /\ ~multiScan.output.hasMainPageUrl \/ ~multiScan.output.hasDiscoveredUrls)
        => multiScan.discovery = FallbackResult

\* C28: in a scan of 4 urls no page scan waits while another is in progress.
C28_NoScanWaits ==
    (multiScan.phase = "scanning" /\ Len(multiScan.pages) = 4) =>
        ~(/\ InStatus(multiScan.pages, "waiting") # {}
          /\ InStatus(multiScan.pages, "running") # {})

\* At most PAGE_SCAN_CONCURRENCY page scans are in progress at once.
C28_AtMostThreeInProgress ==
    Cardinality(InStatus(multiScan.pages, "running")) <= 3

---------------------------------------------------------------------------
(* Properties of saveHistory's pruning and retry. *)

\* The scans handed to saveHistory by the call, as they are serialized.
GivenScans(call) == [i \in 1..Len(call.given) |-> StringifyRecord(call.given[i])]

\* The scans are the `count` latest of the candidates, most recent first.
LatestOf(scans, candidates, count) ==
    /\ Len(scans) = count
    /\ \A i \in 1..(Len(scans) - 1) : scans[i].timestamp >= scans[i + 1].timestamp
    /\ \A i \in 1..Len(scans) : \E j \in 1..Len(candidates) : scans[i] = candidates[j]
    /\ \A j \in 1..Len(candidates) :
          (\A i \in 1..Len(scans) : scans[i] # candidates[j])
             => \A i \in 1..Len(scans) : scans[i].timestamp >= candidates[j].timestamp

\* C29: when the estimated size of a write is above the limit and the
\* pruned history fits, the history written holds exactly the floor(n/2)
\* records with the latest timestamps of the n records handed to the
\* write, most recent first, and the result is a success with a warning.
C29_PrunedToLatestHalf ==
    [][(/\ lastCall'.size > STORAGE_LIMIT_BYTES
        /\ lastCall'.prunedSize <= STORAGE_LIMIT_BYTES
        /\ lastCall'.written)
       => /\ LatestOf(StoredScans', GivenScans(lastCall'), Len(lastCall'.given) \div 2)
          /\ lastCall'.success
          /\ lastCall'.saveWarning # ""]_vars

\* An import of five records out of order that was pruned to the two latest.
C29_Witness ==
    /\ lastCall.op = "importFromJson"
    /\ lastCall.size > STORAGE_LIMIT_BYTES
    /\ lastCall.prunedSize <= STORAGE_LIMIT_BYTES
    /\ lastCall.written
    /\ [i \in 1..Len(lastCall.given) |-> lastCall.given[i].timestamp] = <<2, 5, 1, 4, 3>>
    /\ [i \in 1..Len(StoredScans) |-> StoredScans[i].timestamp] = <<5, 4>>

\* The call's first setItem on the key threw an error of the kind.
FirstWriteThrew(call, kind) == call.attempts >= 1 /\ call.firstWrite = kind

\* C30: after a quota error of the write the store writes once more, with
\* the history pruned to half; when the second write throws too the result
\* is a failure and the item is what it was; after any other error of the
\* write there is no second write; no operation writes the key more than
\* twice.
C30_OneRetryOnQuota ==
    [][/\ lastCall'.attempts <= 2
       /\ FirstWriteThrew(lastCall', "quota")
            => /\ lastCall'.attempts = 2
               /\ lastCall'.retryWrite = "ok"
                    => /\ lastCall'.success
                       /\ LatestOf(StoredScans', GivenScans(lastCall'),
                                   Len(lastCall'.given) \div 2)
               /\ lastCall'.retryWrite # "ok"
                    => ~lastCall'.success /\ stored' = stored
       /\ FirstWriteThrew(lastCall', "error")
            => /\ lastCall'.attempts = 1
               /\ ~lastCall'.success
               /\ stored' = stored]_vars

\* A delete on three records whose write and retry both threw.
C30_Witness ==
    /\ lastCall.op = "delete"
    /\ FirstWriteThrew(lastCall, "quota")
    /\ lastCall.retryWrite = "quota"
    /\ lastCall.attempts = 2
    /\ ~lastCall.success
    /\ Len(StoredScans) = 3

\* An add whose write threw a quota error and whose retry went through.
C30_WitnessRetried ==
    /\ lastCall.op = "add"
    /\ FirstWriteThrew(lastCall, "quota")
    /\ lastCall.retryWrite = "ok"
    /\ lastCall.success
    /\ Len(lastCall.given) = 4
    /\ Len(StoredScans) = 2

---------------------------------------------------------------------------
(* Properties of the warnings of the mutating operations. *)

\* The call is a mutating operation whose write went through with an
\* estimated size above WARNING_THRESHOLD.
WroteAboveThreshold(call) ==
    /\ call.op \in {"add", "delete", "updateLabel", "importFromJson"}
    /\ call.success
    /\ call.written
    /\ call.size > WARNING_THRESHOLD

\* C31: a mutating operation (add, delete, updateLabel, importFromJson)
\* whose write succeeds with an estimated size above 80% of the limit
\* returns a result with a warning that states the percentage used.
C31_WarningAboveThreshold ==
    [][WroteAboveThreshold(lastCall')
       => /\ lastCall'.warning # ""
          /\ lastCall'.warningPct = CapacityPercent(lastCall'.size)]_vars

\* The same for add, delete and importFromJson when the estimate is within
\* the limit and the first write goes through.
C31_WarningPassedOn ==
    [][(/\ WroteAboveThreshold(lastCall')
        /\ lastCall'.op # "updateLabel"
        /\ lastCall'.size <= STORAGE_LIMIT_BYTES
        /\ lastCall'.attempts = 1)
       => /\ lastCall'.warning = "Storage is at N% capacity"
          /\ lastCall'.warningPct = CapacityPercent(lastCall'.size)
          /\ lastCall'.warningPct > 80]_vars

\* updateLabel on a history above the threshold returned without a warning.
C31_NoSilentLabelUpdate ==
    ~(/\ WroteAboveThreshold(lastCall)
      /\ lastCall.op = "updateLabel"
      /\ lastCall.size <= STORAGE_LIMIT_BYTES
      /\ lastCall.attempts = 1
      /\ lastCall.warning = "")

---------------------------------------------------------------------------
(* Properties of the schema version. *)

\* A history text whose version is not the current schema version.
MismatchedVersion(text) ==
    /\ text.kind = "object" /\ text.scansIsArray
    /\ ~(text.hasVersion /\ text.version = SCHEMA_VERSION)

\* What loads of a stored history of another version return, and what the
\* store writes.
VersionOnLoadAndWrite ==
    /\ (lastCall'.op = "getAll" /\ MismatchedVersion(stored) /\ ~lastCall'.loadFailed)
          => [i \in 1..Len(lastCall'.data) |-> StringifyRecord(lastCall'.data[i])]
                = stored.scans
    /\ (lastCall'.op = "exportAsJson" /\ MismatchedVersion(stored)
            /\ ~lastCall'.loadFailed)
          => /\ lastCall'.text.hasVersion /\ lastCall'.text.version = SCHEMA_VERSION
             /\ lastCall'.text.scans = stored.scans
    /\ (lastCall'.op \in MutatingOps /\ lastCall'.written)
          => stored'.hasVersion /\ stored'.version = SCHEMA_VERSION

\* The call imported a payload of another version with success.
ImportedOtherVersion(call) ==
    /\ call.op = "importFromJson"
    /\ call.input \in PayloadNames
    /\ MismatchedVersion(Payload(call.input))
    /\ call.success

\* C32 as stated: loading or importing a history of another version keeps
\* every record and the order and yields the current version, and every
\* item the store writes has the current version.
C32_MigrationKeepsAll ==
    [][/\ VersionOnLoadAndWrite
       /\ ImportedOtherVersion(lastCall')
            => StoredScans' = Payload(lastCall'.input).scans]_vars

\* C32: the same, where an import keeps every record unless its write was
\* pruned after a quota error or an estimate above the limit (the result
\* then warns of the removal).
C32_MigrationKeepsAllUnlessPruned ==
    [][/\ VersionOnLoadAndWrite
       /\ (ImportedOtherVersion(lastCall') /\ lastCall'.warning \notin PruneWarnings)
            => StoredScans' = Payload(lastCall'.input).scans]_vars

\* An import of a payload of version 0 that stored both its records under
\* the current version.
C32_Witness ==
    /\ lastCall.op = "importFromJson"
    /\ lastCall.input = "oldVersion"
    /\ lastCall.success
    /\ lastCall.attempts = 1
    /\ stored.hasVersion /\ stored.version = SCHEMA_VERSION
    /\ StoredScans = Payload("oldVersion").scans

---------------------------------------------------------------------------
(* Properties of two pages sharing the item. *)

\* Both adds returned success, neither load failed and neither write was
\* pruned.
BothAdded ==
    \A c \in Callers :
        /\ callers[c].pc = "done"
        /\ callers[c].success
        /\ ~callers[c].loadFailed
        /\ callers[c].warning \notin PruneWarnings

\* The second writer loaded before the first writer wrote.
Interleaved(first, second) ==
    callers[second].loadStep < callers[first].writeStep

\* C33: when the load and write steps of two add calls interleave, both
\* return success and the item holds only the record of the last writer;
\* when one add runs from load to write before the other loads, as the
\* operations of a single caller do, the item holds both records.
C33_LastWriterWins ==
    BothAdded =>
        \A first \in Callers, second \in Callers :
            callers[first].writeStep < callers[second].writeStep
            => /\ callers[second].scan.id \in StoredIds
               /\ callers[first].scan.id \in StoredIds <=> ~Interleaved(first, second)

\* Both adds returned success and the item holds one of the two records.
C33_Witness ==
    /\ BothAdded
    /\ callers[1].writeStep < callers[2].writeStep
    /\ Interleaved(1, 2)
    /\ callers[2].scan.id \in StoredIds
    /\ callers[1].scan.id \notin StoredIds

\* One add after the other: the item holds both records.
C33_WitnessSerial ==
    /\ BothAdded
    /\ callers[1].writeStep < callers[2].loadStep
    /\ {callers[1].scan.id, callers[2].scan.id} \subseteq StoredIds

---------------------------------------------------------------------------
(* Properties of the fallback count of parseReportMetadata. *)

\* The piece is a heading of level 2: "## ...".
IsLevelTwoHeading(t) ==
    t.kind \in {"heading", "h2"} \/ (t.kind = "sev" /\ t.pattern = 4)

\* The "### n." entries between the first heading of the severity and the
\* next heading of level 2, or the end of the text.
EntriesUnderHeading(lines, sev) ==
    LET starts == {i \in 1..Len(lines) : IsSectionStart(lines[i], sev)}
        start == SetMin(starts)
        stops == {i \in (start + 1)..Len(lines) : IsLevelTwoHeading(lines[i])}
        end == IF stops = {} THEN Len(lines) + 1 ELSE SetMin(stops)
    IN  IF starts = {} THEN 0
        ELSE Cardinality({i \in (start + 1)..(end - 1) : lines[i].kind = "entry"})

\* C34: when the severity patterns leave all four counts at zero, the count
\* returned for each severity is the number of "### N." entries between
\* that severity's heading and the next heading of the same or a higher
\* level, or the end of the text.
C34_FallbackCountsEntries ==
    (/\ parser.returned
     /\ \A k \in 1..4 : PatternCount(parser.lines, Severities[k]) = 0)
        => /\ parser.metadata.critical = EntriesUnderHeading(parser.lines, "critical")
           /\ parser.metadata.serious = EntriesUnderHeading(parser.lines, "serious")
           /\ parser.metadata.moderate = EntriesUnderHeading(parser.lines, "moderate")
           /\ parser.metadata.minor = EntriesUnderHeading(parser.lines, "minor")

\* What the code returns in that case: four counts of zero.
C34_FallbackCountsNothing ==
    (/\ parser.returned
     /\ \A k \in 1..4 : PatternCount(parser.lines, Severities[k]) = 0)
        => /\ parser.metadata.critical = 0 /\ parser.metadata.serious = 0
           /\ parser.metadata.moderate = 0 /\ parser.metadata.minor = 0

---------------------------------------------------------------------------
(* Properties of the order of the agents. *)

\* The order of the agents in a state: a failed page scan means a failed
\* scan without a summarizer call and with an error response; the
\* summarizer is called only when every page scan has returned; page scans
\* exist only when discovery has returned its result.
AgentsInOrder ==
    /\ InStatus(multiScan.pages, "failed") # {}
          => /\ multiScan.phase = "failed"
             /\ multiScan.summarizerCalls = 0
             /\ ScanResponse(multiScan).answered
             /\ ~ScanResponse(multiScan).hasReport
             /\ ScanResponse(multiScan).httpStatus = 500
             /\ ScanResponse(multiScan).error # ""
    /\ (multiScan.summarizerCalls > 0 \/ multiScan.phase \in {"summarizing", "done"})
          => \A i \in 1..Len(multiScan.pages) : multiScan.pages[i].status = "done"
    /\ multiScan.pages # <<>>
          => /\ multiScan.phase # "discovering"
             /\ multiScan.discovery # NoDiscovery
             /\ ~multiScan.discovery.threw

\* C35: when a page scanner agent fails the whole scan fails: the
\* summarizer is never called, no report is returned and the API answers
\* with an error, then and ever after; the summarizer starts only after
\* every page scan has returned, and page scans start only after discovery
\* has returned.
C35_FailedPageFailsScan ==
    /\ []AgentsInOrder
    /\ [][multiScan.phase = "failed"
            => multiScan'.phase = "failed" /\ multiScan'.summarizerCalls = 0]_vars
    /\ [][multiScan'.summarizerCalls > multiScan.summarizerCalls
            => /\ multiScan.phase \in {"discovering", "scanning"}
               /\ \A i \in 1..Len(multiScan'.pages) : multiScan'.pages[i].status = "done"]_vars

\* The third of four page scans failed after two had returned.
C35_Witness ==
    /\ multiScan.phase = "failed"
    /\ Len(multiScan.pages) = 4
    /\ InStatus(multiScan.pages, "failed") = {3}
    /\ InStatus(multiScan.pages, "done") = {1, 2}
    /\ InStatus(multiScan.pages, "waiting") = {}
    /\ multiScan.summarizerCalls = 0
    /\ ScanResponse(multiScan).httpStatus = 500

---------------------------------------------------------------------------
(* Properties of the record an add returns. *)

\* getById(id) on the item finds a record with the scan's url, mode,
\* report and metadata.
FoundAsAdded(item, scan, now) ==
    \E history \in {LoadHistory(item, OkEnv, now)} :
    \E index \in {FindIndex(history.scans, scan.id)} :
       /\ index # 0
       /\ history.scans[index].url = scan.url
       /\ history.scans[index].mode = scan.mode
       /\ history.scans[index].report = scan.report
       /\ history.scans[index].metadata = scan.metadata

\* The write of the call pruned the history it was given.
TookPruningPath(call) ==
    \/ call.size > STORAGE_LIMIT_BYTES
    \/ call.attempts >= 2

\* C36: when add returns success with the record it created, the record
\* is in the item right afterwards (getById finds it with the same url,
\* mode, report and metadata), also when the write pruned the history.
C36_AddedIsPersisted ==
    (lastCall.op = "add" /\ lastCall.success /\ lastCall.data # <<>>)
       => FoundAsAdded(stored, lastCall.data[1], clock)

\* When add returns success and its write did not prune, the record is in
\* the item right afterwards.
C36_AddedIsPersistedUnlessPruned ==
    (lastCall.op = "add" /\ lastCall.success /\ lastCall.data # <<>>
       /\ ~TookPruningPath(lastCall))
       => FoundAsAdded(stored, lastCall.data[1], clock)

\* An add that returned success after pruning, with its record not in the
\* item.
C36_PrunedAway ==
    /\ lastCall.op = "add" /\ lastCall.success /\ lastCall.data # <<>>
    /\ TookPruningPath(lastCall)
    /\ lastCall.given = <<lastCall.data[1]>>
    /\ StoredScans = <<>>

---------------------------------------------------------------------------
(* Properties of the reads. *)

ReadOperations == {"getAll", "getById", "getByUrl", "filter", "getQuota", "exportAsJson"}

\* C37: getAll, getById, getByUrl, filter, getQuota and exportAsJson leave
\* the item under STORAGE_KEY as it is in every state, also when the item
\* is corrupt or carries another version: neither the migrated history nor
\* the empty history a load falls back to is written by a read.
C37_ReadsLeaveItem ==
    [][(opCount' = opCount + 1 /\ lastCall'.op \in ReadOperations)
          => stored' = stored]_vars

\* A read returned the two scans of an item of version 0; the item still
\* carries version 0.
C37_Witness ==
    /\ lastCall.op = "getAll" /\ lastCall.success
    /\ Len(lastCall.data) = 2
    /\ MismatchedVersion(stored) /\ stored.version = 0
    /\ Len(stored.scans) = 2

\* A read reported an empty history for a corrupt item; the item is still
\* the corrupt text.
C37_WitnessCorrupt ==
    /\ lastCall.op = "exportAsJson" /\ lastCall.success
    /\ lastCall.text.kind = "object" /\ lastCall.text.scans = <<>>
    /\ CorruptItem(stored)

---------------------------------------------------------------------------
(* Properties of the parts of a comparison. *)

\* fixed and unchanged make up the baseline count, new and unchanged the
\* current count, and fixed and new are not both nonzero.
PartsAddUp(entry, baselineCount, currentCount) ==
    /\ entry.fixed + entry.unchanged = baselineCount
    /\ entry.new + entry.unchanged = currentCount
    /\ entry.fixed = 0 \/ entry.new = 0

\* C38: in every comparison fixed + unchanged is the baseline total, new +
\* unchanged is the current total and at most one of fixed and new is not
\* zero, overall and for each severity; isImprovement and isRegression are
\* never both true, and both are false exactly when the totals are equal.
C38_PartsAndVerdicts ==
    engine.op = "compareScanRecords"
    => /\ PartsAddUp(engine.result.overall,
                     engine.result.overall.baselineTotal,
                     engine.result.overall.currentTotal)
       /\ \A severity \in SeverityNames :
             PartsAddUp(engine.result.bySeverity[severity],
                        engine.result.bySeverity[severity].baselineCount,
                        engine.result.bySeverity[severity].currentCount)
       /\ ~(IsImprovement(engine.result) /\ IsRegression(engine.result))
       /\ (~IsImprovement(engine.result) /\ ~IsRegression(engine.result))
             <=> engine.result.overall.baselineTotal = engine.result.overall.currentTotal

\* A comparison of equal totals whose severities moved both ways: neither
\* an improvement nor a regression.
C38_Witness ==
    /\ engine.op = "compareScanRecords"
    /\ engine.result.overall.baselineTotal = engine.result.overall.currentTotal
    /\ engine.result.overall.baselineTotal > 0
    /\ engine.result.bySeverity["critical"].fixed > 0
    /\ engine.result.bySeverity["minor"].new > 0
    /\ ~IsImprovement(engine.result) /\ ~IsRegression(engine.result)

\* A comparison that is an improvement, with parts that are not zero.
C38_WitnessImprovement ==
    /\ engine.op = "compareScanRecords"
    /\ IsImprovement(engine.result) /\ ~IsRegression(engine.result)
    /\ engine.result.overall.fixed > 0
    /\ engine.result.overall.unchanged > 0

---------------------------------------------------------------------------
(* Properties of the page flow. *)

\* In the step handleScan takes the answer of its fetch.
TakesAnswer == home.request.pending /\ ~home'.request.pending

\* C39: the page adds a record to the history only when the scan API
\* answered with status success, and it calls add exactly once for such an
\* answer; after a failed or rejected scan the page is back at the form
\* with an error and the history is what it was; after a successful scan
\* whose save failed the page still shows the results.
C39_PageFlow ==
    [][/\ (stored' # stored \/ home'.adds # home.adds \/ nextId' # nextId)
            => /\ TakesAnswer
               /\ home'.response.ok /\ home'.response.status = "success"
       /\ TakesAnswer
            => IF ~home'.response.rejected /\ home'.response.ok
                  /\ home'.response.status = "success"
               THEN /\ home'.adds = home.adds + 1
                    /\ nextId' = nextId + 1
                    /\ lastCall'.op = "add" /\ lastCall'.input = home'.response.data
                    /\ home'.pageState = "results"
                    /\ home'.results = home'.response.data
                    /\ home'.error = ""
                    /\ ~lastCall'.success
                         => /\ home'.notification.type = "error"
                            /\ stored' = stored
               ELSE /\ home'.adds = home.adds
                    /\ stored' = stored
                    /\ home'.pageState = "form"
                    /\ home'.error # ""
                    /\ home'.results = home.results]_vars

\* A successful scan whose save failed: the page shows the report with
\* the error notification, and the item is absent as before.
C39_Witness ==
    /\ home.pageState = "results" /\ home.results = SmallReport
    /\ home.response.status = "success"
    /\ home.adds = 1
    /\ lastCall.op = "add" /\ ~lastCall.success
    /\ home.notification.type = "error"
    /\ home.currentScanId = 0
    /\ stored = AbsentItem

\* A scan the API answered with status 500: the page is at the form with
\* the error and no add was made.
C39_WitnessFailed ==
    /\ home.pageState = "form"
    /\ home.error = "Failed to perform accessibility scan"
    /\ ~home.request.pending
    /\ home.adds = 0 /\ lastCall = NoCall
    /\ StoredScans # <<>>

====
